---------------------------- MODULE Spec2Model ----------------------------
(***************************************************************************)
(* Afriscore: stokvel savings, withdrawal PINs and the security layer.     *)
(*                                                                         *)
(* Time is a global clock `now` counted in minutes (datetime.now()).       *)
(* Money is counted in thousandths of a rand (Rand == 1000), so that        *)
(* round(x, 2) is a real rounding, to the nearest multiple of 10.          *)
(* A Python dict keyed by a generated id is a sequence indexed by the      *)
(* counter that generates the id (insertion order = index order).          *)
(* None is the value NONE for a timestamp and NoAmount for an amount.      *)
(***************************************************************************)
EXTENDS Integers, Sequences, FiniteSets, TLC

VARIABLES
    now,                    \* datetime.now(), minutes
    members,                \* Stokvel.members: user -> [status, is_manager]
    contributions,          \* Stokvel.contributions: user -> sequence of amounts
    manager_id,             \* Stokvel.manager_id
    payout_schedule,        \* Stokvel.payout_schedule: members in payout-date order
    individual_savings,     \* SavingsManager.individual_savings: user -> account
    pins,                   \* PaymentsManager.pins, in insertion order
    pin_counter,            \* PaymentsManager.pin_counter
    has_schedule,           \* stokvel_id in PaymentsManager.stokvel_schedules
    current_cycle_members,  \* StokvelPayoutSchedule.current_cycle_members
    upcoming_payouts,       \* StokvelPayoutSchedule.upcoming_payouts
    payout_history,         \* StokvelPayoutSchedule.payout_history
    account_security,       \* SecurityManager.account_security: user -> AccountSecurity
    action_counts,          \* RateLimiter.action_counts: key -> attempt times
    pin_events,             \* SecurityManager.security_events: the latest PIN events
    pc,                     \* where each concurrent verify_and_redeem_pin call stands
    purge_found,            \* per call: the pins its purge found pending and expired
    matching_pin,           \* per call: the local matching_pin (0 for None)
    result,                 \* per call: what it returned
    votes,                  \* Stokvel.votes, in insertion order (vote_counter = Len)
    monthly_amount,         \* Stokvel.monthly_amount
    accepting,              \* where each concurrent accept_invitation call stands
    last                    \* the last call made and what it returned

vars == <<now, members, contributions, manager_id, payout_schedule,
          individual_savings, pins, pin_counter,
          has_schedule, current_cycle_members, upcoming_payouts,
          payout_history, account_security, action_counts,
          pin_events, pc, purge_found, matching_pin, result,
          votes, monthly_amount, accepting, last>>

stokvelVars == <<members, contributions, manager_id, payout_schedule>>
scheduleVars == <<has_schedule, current_cycle_members, upcoming_payouts, payout_history>>
pinVars == <<pins, pin_counter>>
secVars == <<account_security, action_counts, pin_events>>
raceVars == <<pc, purge_found, matching_pin, result>>
voteVars == <<votes, monthly_amount>>
otherVars == <<secVars, raceVars, voteVars, accepting>>

-----------------------------------------------------------------------------
(* Bounds of the model                                                     *)

Users == {"u1", "u2", "u3"}
Creator == "u1"
StokvelId == "S1"
PinCodes == {"11111", "22222"}
Phones == {"p1", "p2"}
\* the phone each user registered (SavingsManager.user_registry)
PhoneOf == [u \in Users |-> IF u = "u1" THEN "p1" ELSE "p2"]

MaxPins == 2
MaxTime == 2880
PinTick == 1440
MaxHistory == 6
MaxContributions == 1
MaxLedger == 2

MaxEvents == 3
MaxVotes == 2
VoteTick == 1440
VoteMaxTime == 1440
SecTick == 15
SecMaxTime == 45
NumThreads == 2
Threads == 1..NumThreads

NONE == -1
NoAmount == -1

\* one rand, in the unit in which amounts are counted
Rand == 1000

-----------------------------------------------------------------------------
(* Program constants                                                       *)

PIN_EXPIRY_MINUTES == 1440
VOTE_EXPIRY_MINUTES == 1440
MAX_AMOUNT == 5000
MIN_STOKVEL_WITHDRAWAL == 10
MIN_MEMBERS == 2
MAX_MEMBERS == 10
MAX_FAILED_ATTEMPTS == 3
LOCKOUT_DURATION_MINUTES == 30
RATE_WINDOW_MINUTES == 60
MAX_WITHDRAWAL_REQUESTS == 5
MAX_PIN_VERIFICATIONS == 10

-----------------------------------------------------------------------------
(* Helpers                                                                 *)

RECURSIVE SumSeq(_)
SumSeq(s) == IF s = <<>> THEN 0 ELSE Head(s) + SumSeq(Tail(s))

Range(s) == {s[i] : i \in DOMAIN s}

Min(a, b) == IF a <= b THEN a ELSE b

\* round(x, 2) of a non-negative amount: the nearest multiple of a cent,
\* an exact tie going to the even cent
round2(x) ==
    LET cent == Rand \div 100
        q == x \div cent
        r == x % cent
    IN IF 2 * r < cent THEN q * cent
       ELSE IF 2 * r > cent THEN (q + 1) * cent
       ELSE IF q % 2 = 0 THEN q * cent ELSE (q + 1) * cent

\* random.shuffle: every ordering of the members, each member once
Shuffles(S) == {p \in [1..Cardinality(S) -> S] : Range(p) = S}

\* the call record: which operation ran, on what, and whether it raised
Call(op, user, pin, amount, code, phone, ok, why) ==
    [op |-> op, user |-> user, pin |-> pin, amount |-> amount,
     code |-> code, phone |-> phone, ok |-> ok, why |-> why]

NoCall == Call("init", "", 0, NoAmount, "", "", TRUE, "")

-----------------------------------------------------------------------------
(* security.py: the state of the security layer                            *)

\* an AccountSecurity object; `exists` is false for a user who has no entry
\* in SecurityManager.account_security yet
Account(exists, failed, locked, until) ==
    [exists |-> exists, failed_pin_attempts |-> failed, is_locked |-> locked,
     locked_until |-> until]

NoAccount == Account(FALSE, 0, FALSE, NONE)

\* the keys f"withdrawal_{user_id}" and f"pin_verify_{user_id}"
RateKeys == {"withdrawal", "pin_verify"} \X Users

\* get_or_create_account_security
get_or_create_account_security(u) ==
    IF account_security[u].exists THEN account_security[u]
    ELSE Account(TRUE, 0, FALSE, NONE)

lock_account(acc, t) ==
    [acc EXCEPT !.is_locked = TRUE,
                !.locked_until = t + LOCKOUT_DURATION_MINUTES]

unlock_account_keeping_count(acc) ==
    [acc EXCEPT !.is_locked = FALSE, !.locked_until = NONE]

unlock_account(acc) ==
    [acc EXCEPT !.is_locked = FALSE, !.locked_until = NONE,
                !.failed_pin_attempts = 0]

record_failed_pin_attempt_locking_late(acc, t) ==
    LET counted == [acc EXCEPT !.failed_pin_attempts = @ + 1] IN
    IF counted.failed_pin_attempts > MAX_FAILED_ATTEMPTS
    THEN lock_account(counted, t) ELSE counted

record_failed_pin_attempt(acc, t) ==
    LET counted == [acc EXCEPT !.failed_pin_attempts = @ + 1] IN
    IF counted.failed_pin_attempts >= MAX_FAILED_ATTEMPTS
    THEN lock_account(counted, t) ELSE counted

reset_failed_attempts(acc) == [acc EXCEPT !.failed_pin_attempts = 0]

\* check_if_locked returns whether the account is locked at time t ...
still_locked_at_expiry(acc, t) ==
    acc.is_locked /\ ~(acc.locked_until # NONE /\ t > acc.locked_until)

check_if_locked(acc, t) ==
    acc.is_locked /\ ~(acc.locked_until # NONE /\ t >= acc.locked_until)

\* ... and unlocks the account when the lockout period has passed
AfterLockCheck(acc, t) ==
    IF acc.is_locked /\ ~check_if_locked(acc, t) THEN unlock_account(acc)
    ELSE acc

InWindow_keeping_all(times, t, window) == times

\* check_rate_limit drops the attempts that left the window ...
InWindow(times, t, window) ==
    SelectSeq(times, LAMBDA ts : ts > t - window)

check_rate_limit_one_more(times, t, max_attempts, window) ==
    Len(InWindow(times, t, window)) <= max_attempts

\* ... and allows the action while fewer than max_attempts remain
check_rate_limit(times, t, max_attempts, window) ==
    Len(InWindow(times, t, window)) < max_attempts

record_attempt(times, t) == Append(times, t)

\* log_security_event, for the events of PIN verification and of the manual
\* unlock; the MaxEvents latest are kept
PinEvent(type, attempts) == [type |-> type, attempts |-> attempts]

log_security_event(events, e) ==
    IF Len(events) < MaxEvents THEN Append(events, e)
    ELSE Append(Tail(events), e)

SecCall(op, u, code, phone, ok, why) ==
    Call(op, u, 0, NoAmount, code, phone, ok, why)

secFrame == UNCHANGED <<raceVars, voteVars, accepting, now, stokvelVars, individual_savings,
                        pinVars, scheduleVars>>

VerifyPinAttempt(pin_code, phone, actual_pin, actual_phone, u) ==
    LET key == <<"pin_verify", u>>
        acc == AfterLockCheck(get_or_create_account_security(u), now)
        kept == InWindow(action_counts[key], now, RATE_WINDOW_MINUTES)
        failed == record_failed_pin_attempt(acc, now)
    IN /\ secFrame
       /\ IF check_if_locked(get_or_create_account_security(u), now)
          THEN /\ account_security' = [account_security EXCEPT ![u] = acc]
               /\ UNCHANGED <<action_counts, pin_events>>
               /\ last' = SecCall("verify_pin_attempt", u, pin_code, phone,
                                  FALSE, "locked")
          ELSE IF ~check_rate_limit(action_counts[key], now,
                                    MAX_PIN_VERIFICATIONS, RATE_WINDOW_MINUTES)
          THEN /\ account_security' = [account_security EXCEPT ![u] = acc]
               /\ action_counts' = [action_counts EXCEPT ![key] = kept]
               /\ UNCHANGED pin_events
               /\ last' = SecCall("verify_pin_attempt", u, pin_code, phone,
                                  FALSE, "rate_limited")
          ELSE /\ action_counts' =
                     [action_counts EXCEPT ![key] = record_attempt(kept, now)]
               /\ IF pin_code = actual_pin /\ phone = actual_phone
                  THEN /\ account_security' = [account_security EXCEPT
                                                  ![u] = reset_failed_attempts(acc)]
                       /\ pin_events' = log_security_event(pin_events,
                                            PinEvent("pin_verification", 0))
                       /\ last' = SecCall("verify_pin_attempt", u, pin_code,
                                          phone, TRUE, "")
                  ELSE /\ account_security' = [account_security EXCEPT
                                                  ![u] = AfterLockCheck(failed, now)]
                       /\ pin_events' = log_security_event(pin_events,
                             PinEvent("failed_pin_attempt",
                                      failed.failed_pin_attempts))
                       /\ last' = SecCall("verify_pin_attempt", u, pin_code,
                                          phone, FALSE,
                                          IF check_if_locked(failed, now)
                                          THEN "locked_out" ELSE "invalid")

VerifyWithdrawalRequest(u) ==
    LET key == <<"withdrawal", u>>
        acc == AfterLockCheck(get_or_create_account_security(u), now)
        kept == InWindow(action_counts[key], now, RATE_WINDOW_MINUTES)
    IN /\ secFrame
       /\ account_security' = [account_security EXCEPT ![u] = acc]
       /\ UNCHANGED pin_events
       /\ IF check_if_locked(get_or_create_account_security(u), now)
          THEN /\ UNCHANGED action_counts
               /\ last' = SecCall("verify_withdrawal_request", u, "", "",
                                  FALSE, "locked")
          ELSE IF ~check_rate_limit(action_counts[key], now,
                                    MAX_WITHDRAWAL_REQUESTS, RATE_WINDOW_MINUTES)
          THEN /\ action_counts' = [action_counts EXCEPT ![key] = kept]
               /\ last' = SecCall("verify_withdrawal_request", u, "", "",
                                  FALSE, "rate_limited")
          ELSE /\ action_counts' =
                     [action_counts EXCEPT ![key] = record_attempt(kept, now)]
               /\ last' = SecCall("verify_withdrawal_request", u, "", "",
                                  TRUE, "")

UnlockUserAccount(u) ==
    /\ secFrame
    /\ UNCHANGED action_counts
    /\ IF ~account_security[u].exists
       THEN /\ UNCHANGED <<account_security, pin_events>>
            /\ last' = SecCall("unlock_user_account", u, "", "", FALSE, "")
       ELSE /\ account_security' = [account_security EXCEPT
                                       ![u] = unlock_account(@)]
            /\ pin_events' = log_security_event(pin_events,
                                 PinEvent("manual_unlock", 0))
            /\ last' = SecCall("unlock_user_account", u, "", "", TRUE, "")

-----------------------------------------------------------------------------
(* savings.py: Stokvel and IndividualSavings                               *)

\* an entry of Stokvel.members; status "none" stands for a user who has no
\* entry in the dict, left_at is NONE until the member leaves
Member(status, is_manager) ==
    [status |-> status, is_manager |-> is_manager, left_at |-> NONE]

NotMember == Member("none", FALSE)

get_accepted_members == {u \in DOMAIN members : members[u].status = "accepted"}

get_member_total(u) == round2(SumSeq(contributions[u]))

RECURSIVE SumOver(_, _)
SumOver(f, S) ==
    IF S = {} THEN 0
    ELSE LET x == CHOOSE y \in S : TRUE IN f[x] + SumOver(f, S \ {x})

get_stokvel_total ==
    round2(SumOver([u \in DOMAIN members |-> SumSeq(contributions[u])],
                   get_accepted_members))

get_total_savings(u) == round2(SumSeq(individual_savings[u].contributions))

can_add_member == Cardinality(get_accepted_members) < MAX_MEMBERS

\* _calculate_payout_dates: the accepted members in a fresh random order,
\* entry k being paid k - 1 months after the base month; with no accepted
\* member the schedule is left as it is
calculate_payout_dates(ms, old, order) ==
    IF {u \in DOMAIN ms : ms[u].status = "accepted"} = {} THEN old ELSE order

StokvelCall(op, u, amount, ok, why) == Call(op, u, 0, amount, "", "", ok, why)

already_processed_never(member) == FALSE

\* "Invitation has already been processed."
already_processed(member) == member.status # "pending"

InviteMember(m) ==
    LET fail(why) ==
            /\ UNCHANGED stokvelVars
            /\ last' = StokvelCall("invite_member", m, NoAmount, FALSE, why)
    IN /\ UNCHANGED <<otherVars, now, individual_savings, pinVars, scheduleVars>>
       /\ IF members[m].status # "none" THEN fail("duplicate")
          ELSE IF ~can_add_member THEN fail("full")
          ELSE /\ members' = [members EXCEPT ![m] = Member("pending", FALSE)]
               /\ UNCHANGED <<contributions, manager_id, payout_schedule>>
               /\ last' = StokvelCall("invite_member", m, NoAmount, TRUE, "")

AcceptInvitation(m) ==
    LET fail(why) ==
            /\ UNCHANGED stokvelVars
            /\ last' = StokvelCall("accept_invitation", m, NoAmount, FALSE, why)
    IN /\ UNCHANGED <<otherVars, now, individual_savings, pinVars, scheduleVars>>
       /\ IF members[m].status = "none" THEN fail("not_invited")
          ELSE IF already_processed(members[m]) THEN fail("processed")
          ELSE IF ~can_add_member THEN fail("full")
          ELSE LET ms == [members EXCEPT ![m].status = "accepted"] IN
               \E order \in Shuffles({u \in DOMAIN ms : ms[u].status = "accepted"}) :
               /\ members' = ms
               /\ contributions' = [contributions EXCEPT ![m] = <<>>]
               /\ payout_schedule' = calculate_payout_dates(ms, payout_schedule, order)
               /\ UNCHANGED manager_id
               /\ last' = StokvelCall("accept_invitation", m, NoAmount, TRUE, "")

\* leave_stokvel marks the member as left BEFORE it checks the minimum, so
\* the call that raises "needs minimum 2 members" has already changed the
\* member's status and left_at
LeaveStokvel(m) ==
    LET fail(why) ==
            /\ UNCHANGED stokvelVars
            /\ last' = StokvelCall("leave_stokvel", m, NoAmount, FALSE, why)
    IN /\ UNCHANGED <<otherVars, now, individual_savings, pinVars, scheduleVars>>
       /\ IF members[m].status = "none" THEN fail("not_member")
          ELSE IF members[m].status # "accepted" THEN fail("not_accepted")
          ELSE IF members[m].is_manager THEN fail("manager")
          ELSE LET ms == [members EXCEPT ![m].status = "left",
                                         ![m].left_at = now]
                   remaining == {u \in DOMAIN ms : ms[u].status = "accepted"}
               IN /\ members' = ms
                  /\ UNCHANGED <<contributions, manager_id>>
                  /\ IF Cardinality(remaining) < MIN_MEMBERS
                     THEN /\ UNCHANGED payout_schedule
                          /\ last' = StokvelCall("leave_stokvel", m, NoAmount,
                                                 FALSE, "minimum")
                     ELSE \E order \in Shuffles(remaining) :
                          /\ payout_schedule' =
                                calculate_payout_dates(ms, payout_schedule, order)
                          /\ last' = StokvelCall("leave_stokvel", m, NoAmount,
                                                 TRUE, "")

\* the number of contributions recorded so far
LedgerSize ==
    SumOver([u \in DOMAIN members |-> Len(contributions[u])], DOMAIN members)

invalid_contribution_above_only(amount) == amount > MAX_AMOUNT * Rand

\* "Contribution must be between R0 and R5,000."
invalid_contribution(amount) == amount <= 0 \/ amount > MAX_AMOUNT * Rand

AddContribution(m, amount) ==
    LET fail(why) ==
            /\ UNCHANGED stokvelVars
            /\ last' = StokvelCall("add_contribution", m, amount, FALSE, why)
    IN /\ UNCHANGED <<otherVars, now, individual_savings, pinVars, scheduleVars>>
       /\ IF members[m].status = "none" THEN fail("not_member")
          ELSE IF members[m].status # "accepted" THEN fail("not_accepted")
          ELSE IF invalid_contribution(amount) THEN fail("amount")
          ELSE /\ contributions' =
                     [contributions EXCEPT ![m] = Append(@, amount)]
               /\ UNCHANGED <<members, manager_id, payout_schedule>>
               /\ last' = StokvelCall("add_contribution", m, amount, TRUE, "")

RejectInvitation(m) ==
    LET fail(why) ==
            /\ UNCHANGED stokvelVars
            /\ last' = StokvelCall("reject_invitation", m, NoAmount, FALSE, why)
    IN /\ UNCHANGED <<otherVars, now, individual_savings, pinVars, scheduleVars>>
       /\ IF members[m].status = "none" THEN fail("not_invited")
          ELSE IF already_processed(members[m]) THEN fail("processed")
          ELSE /\ members' = [members EXCEPT ![m].status = "rejected"]
               /\ UNCHANGED <<contributions, manager_id, payout_schedule>>
               /\ last' = StokvelCall("reject_invitation", m, NoAmount, TRUE, "")

-----------------------------------------------------------------------------
(* savings.py: Vote, and the voting operations of Stokvel                  *)

\* a Vote; `ballots` is Vote.votes (member -> True/False), proposal is the
\* proposed manager or the proposed amount
Vote(vote_type, proposal, initiated_by, t) ==
    [vote_type |-> vote_type, proposal |-> proposal,
     initiated_by |-> initiated_by, ballots |-> << >>,
     expires_at |-> t + VOTE_EXPIRY_MINUTES,
     is_active |-> TRUE, passed |-> FALSE]

\* Vote.cast_vote: self.votes[member_id] = vote_yes
record_ballot(v, m, vote_yes) ==
    [v EXCEPT !.ballots = [u \in DOMAIN v.ballots \cup {m} |->
                              IF u = m THEN vote_yes ELSE v.ballots[u]]]

yes_votes(v) == Cardinality({u \in DOMAIN v.ballots : v.ballots[u]})

required_votes_half(total_members) == (total_members + 1) \div 2

required_votes(total_members) == (total_members \div 2) + 1

\* the value check_if_passed returns
check_if_passed(v, total_members, t) ==
    IF ~v.is_active THEN v.passed
    ELSE yes_votes(v) >= required_votes(total_members)

AfterCheckIfPassed_staying_active(v, total_members, t) ==
    IF ~v.is_active THEN v
    ELSE IF yes_votes(v) >= required_votes(total_members)
    THEN [v EXCEPT !.passed = TRUE]
    ELSE IF t >= v.expires_at THEN [v EXCEPT !.is_active = FALSE]
    ELSE v

\* the vote as check_if_passed leaves it
AfterCheckIfPassed(v, total_members, t) ==
    IF ~v.is_active THEN v
    ELSE IF yes_votes(v) >= required_votes(total_members)
    THEN [v EXCEPT !.passed = TRUE, !.is_active = FALSE]
    ELSE IF t >= v.expires_at THEN [v EXCEPT !.is_active = FALSE]
    ELSE v

\* _change_manager: clears every is_manager flag, then sets the new one
change_manager(ms, new_manager_id) ==
    [u \in DOMAIN ms |-> [ms[u] EXCEPT !.is_manager = (u = new_manager_id)]]

HasActiveVoteNever(vs, vote_type) == FALSE

HasActiveVote(vs, vote_type) ==
    \E i \in DOMAIN vs : vs[i].is_active /\ vs[i].vote_type = vote_type

VoteCall(op, u, vote_id, amount, ok, why) ==
    Call(op, u, vote_id, amount, "", "", ok, why)

voteFrame == UNCHANGED <<secVars, raceVars, accepting, now, individual_savings,
                         pinVars, scheduleVars, contributions>>

InitiateManagerVote(initiated_by, proposed_manager) ==
    LET fail(why) ==
            /\ UNCHANGED votes
            /\ last' = VoteCall("initiate_manager_vote", initiated_by, 0,
                                NoAmount, FALSE, why)
        creates == /\ initiated_by \in get_accepted_members
                   /\ proposed_manager \in get_accepted_members
                   /\ ~HasActiveVote(votes, "manager_change")
    IN /\ creates => Len(votes) < MaxVotes
       /\ voteFrame
       /\ UNCHANGED <<members, manager_id, payout_schedule, monthly_amount>>
       /\ IF initiated_by \notin get_accepted_members THEN fail("not_accepted")
          ELSE IF proposed_manager \notin get_accepted_members
          THEN fail("proposed_not_accepted")
          ELSE IF HasActiveVote(votes, "manager_change") THEN fail("active_vote")
          ELSE /\ votes' = Append(votes, Vote("manager_change",
                                   proposed_manager, initiated_by, now))
               /\ last' = VoteCall("initiate_manager_vote", initiated_by,
                                   Len(votes) + 1, NoAmount, TRUE, "")

InitiateAmountChangeVote(initiated_by, new_amount) ==
    LET fail(why) ==
            /\ UNCHANGED votes
            /\ last' = VoteCall("initiate_amount_change_vote", initiated_by, 0,
                                new_amount, FALSE, why)
        creates == /\ initiated_by \in get_accepted_members
                   /\ new_amount > 0 /\ new_amount <= MAX_AMOUNT * Rand
                   /\ ~HasActiveVote(votes, "monthly_amount_change")
    IN /\ creates => Len(votes) < MaxVotes
       /\ voteFrame
       /\ UNCHANGED <<members, manager_id, payout_schedule, monthly_amount>>
       /\ IF initiated_by \notin get_accepted_members THEN fail("not_accepted")
          ELSE IF new_amount <= 0 \/ new_amount > MAX_AMOUNT * Rand THEN fail("amount")
          ELSE IF HasActiveVote(votes, "monthly_amount_change")
          THEN fail("active_vote")
          ELSE /\ votes' = Append(votes, Vote("monthly_amount_change",
                                   new_amount, initiated_by, now))
               /\ last' = VoteCall("initiate_amount_change_vote", initiated_by,
                                   Len(votes) + 1, new_amount, TRUE, "")

CastVote(vote_id, member_id, vote_yes) ==
    LET fail(why) ==
            /\ UNCHANGED <<members, manager_id, payout_schedule, voteVars>>
            /\ last' = VoteCall("cast_vote", member_id, vote_id, NoAmount,
                                FALSE, why)
    IN /\ voteFrame
       /\ IF vote_id \notin DOMAIN votes THEN fail("not_found")
          ELSE IF member_id \notin get_accepted_members THEN fail("not_accepted")
          ELSE IF ~votes[vote_id].is_active THEN fail("inactive")
          ELSE LET total_members == Cardinality(get_accepted_members)
                   cast == record_ballot(votes[vote_id], member_id, vote_yes)
                   vote == AfterCheckIfPassed(cast, total_members, now)
               IN /\ votes' = [votes EXCEPT ![vote_id] = vote]
                  /\ IF ~check_if_passed(cast, total_members, now)
                     THEN /\ UNCHANGED <<members, manager_id, payout_schedule,
                                         monthly_amount>>
                          /\ last' = VoteCall("cast_vote", member_id, vote_id,
                                              NoAmount, TRUE, "not_passed")
                     ELSE /\ last' = VoteCall("cast_vote", member_id, vote_id,
                                              NoAmount, TRUE, "passed")
                          /\ IF vote.vote_type = "manager_change"
                             THEN /\ members' = change_manager(members, vote.proposal)
                                  /\ manager_id' = vote.proposal
                                  /\ UNCHANGED <<payout_schedule, monthly_amount>>
                             ELSE /\ monthly_amount' = vote.proposal
                                  /\ UNCHANGED <<members, manager_id>>
                                  /\ \E order \in Shuffles(get_accepted_members) :
                                        payout_schedule' = calculate_payout_dates(
                                            members, payout_schedule, order)

ManagerDemoteSelf(new_manager_id) ==
    /\ voteFrame
    /\ UNCHANGED <<payout_schedule, voteVars>>
    /\ IF new_manager_id \notin get_accepted_members
       THEN /\ UNCHANGED <<members, manager_id>>
            /\ last' = VoteCall("manager_demote_self", new_manager_id, 0,
                                NoAmount, FALSE, "not_accepted")
       ELSE /\ members' = change_manager(members, new_manager_id)
            /\ manager_id' = new_manager_id
            /\ last' = VoteCall("manager_demote_self", new_manager_id, 0,
                                NoAmount, TRUE, "")

-----------------------------------------------------------------------------
(* payments.py: PaymentPIN                                                 *)

NewPin(user, phone, amount, wtype, source, code, t) ==
    [user_id |-> user, phone_number |-> phone, amount |-> amount,
     withdrawal_type |-> wtype, source_id |-> source, pin_code |-> code,
     created_at |-> t, expires_at |-> t + PIN_EXPIRY_MINUTES,
     status |-> "pending", redeemed_at |-> NONE]

is_valid_ignoring_expiry(pin, t) == pin.status = "pending"

is_valid(pin, t) == pin.status = "pending" /\ t < pin.expires_at

mark_expired_late(pin, t) ==
    IF t > pin.expires_at /\ pin.status = "pending"
    THEN [pin EXCEPT !.status = "expired"]
    ELSE pin

mark_expired(pin, t) ==
    IF t >= pin.expires_at /\ pin.status = "pending"
    THEN [pin EXCEPT !.status = "expired"]
    ELSE pin

\* redeem() raises when the pin is not valid; RedeemRaises tells which
RedeemRaises(pin, t) == ~is_valid(pin, t)

redeem(pin, t) ==
    IF RedeemRaises(pin, t) THEN pin
    ELSE [pin EXCEPT !.status = "completed", !.redeemed_at = t]

CancelRaises(pin) == pin.status # "pending"

cancel_unguarded(pin) == [pin EXCEPT !.status = "cancelled"]

cancel(pin) ==
    IF CancelRaises(pin) THEN pin
    ELSE [pin EXCEPT !.status = "cancelled"]

-----------------------------------------------------------------------------
(* payments.py: StokvelPayoutSchedule                                      *)

get_next_payout_recipient(queue) == IF queue = <<>> THEN "" ELSE queue[1]

is_member_anywhere(queue, m) == queue # <<>> /\ m \in Range(queue)

is_member_next(queue, m) == queue # <<>> /\ queue[1] = m

CompletePayoutRaisesOnlyWhenEmpty(queue, m) == queue = <<>>

CompletePayoutRaises(queue, m) == queue = <<>> \/ queue[1] # m

PayoutRecord(cycle, queue, m, amount, t) ==
    [member_id |-> m, amount |-> amount, date |-> t,
     cycle_position |-> Len(cycle) - Len(queue)]

Sched(cycle, queue, history) ==
    [current_cycle_members |-> cycle, upcoming_payouts |-> queue,
     payout_history |-> history]

\* initialize_payout_order: `order` is the shuffle of member_ids that
\* random.shuffle produced; an empty member list raises
InitializeRaises(order) == order = <<>>

initialize_payout_order(s, order) ==
    IF InitializeRaises(order) THEN s
    ELSE [s EXCEPT !.current_cycle_members = order, !.upcoming_payouts = order]

complete_payout_without_pop(s, m, amount, t, order) ==
    IF CompletePayoutRaises(s.upcoming_payouts, m) THEN s
    ELSE [s EXCEPT
             !.payout_history = Append(s.payout_history,
                 PayoutRecord(s.current_cycle_members,
                              Tail(s.upcoming_payouts), m, amount, t))]

complete_payout_without_new_cycle(s, m, amount, t, order) ==
    IF CompletePayoutRaises(s.upcoming_payouts, m) THEN s
    ELSE [s EXCEPT
             !.upcoming_payouts = Tail(s.upcoming_payouts),
             !.payout_history = Append(s.payout_history,
                 PayoutRecord(s.current_cycle_members,
                              Tail(s.upcoming_payouts), m, amount, t))]

\* complete_payout: pop the head, append the record, and start a new cycle
\* (shuffle `order` of the same cycle members) when the queue is exhausted
complete_payout(s, m, amount, t, order) ==
    IF CompletePayoutRaises(s.upcoming_payouts, m) THEN s
    ELSE LET rest == Tail(s.upcoming_payouts)
             popped == [s EXCEPT
                 !.upcoming_payouts = rest,
                 !.payout_history = Append(s.payout_history,
                     PayoutRecord(s.current_cycle_members, rest, m, amount, t))]
         IN IF rest = <<>> THEN initialize_payout_order(popped, order)
            ELSE popped

-----------------------------------------------------------------------------
(* payments.py: PaymentsManager                                            *)

TheSchedule == Sched(current_cycle_members, upcoming_payouts, payout_history)

SetSchedule(s) ==
    /\ current_cycle_members' = s.current_cycle_members
    /\ upcoming_payouts' = s.upcoming_payouts
    /\ payout_history' = s.payout_history

cleanup_expired_pins(ps, t) == [i \in DOMAIN ps |-> mark_expired(ps[i], t)]

\* get_or_create_schedule: the schedule after the call; `order` is the
\* shuffle of the accepted members drawn if the schedule is created now
get_or_create_schedule(order) ==
    IF has_schedule THEN TheSchedule
    ELSE initialize_payout_order(Sched(<<>>, <<>>, <<>>), order)

\* index of the first pin, in insertion order, whose code and phone match
\* (0 when there is none): the loop of verify_and_redeem_pin
FindPin(ps, code, phone) ==
    LET hits == {i \in DOMAIN ps :
                    ps[i].pin_code = code /\ ps[i].phone_number = phone}
    IN IF hits = {} THEN 0
       ELSE CHOOSE i \in hits : \A j \in hits : i <= j

insufficient_funds_never(amount, available_balance) == FALSE

\* "Insufficient funds. Available: ..."
insufficient_funds(amount, available_balance) == amount > available_balance

\* `code` is the pin code that _generate_pin draws if a pin is created
RequestIndividualWithdrawal(u, phone, amount, code) ==
    LET ps == cleanup_expired_pins(pins, now)
        fail(why) ==
            /\ pins' = ps
            /\ UNCHANGED pin_counter
            /\ last' = Call("request_individual_withdrawal", u, 0, amount,
                            "", "", FALSE, why)
    IN /\ pin_counter < MaxPins
       /\ UNCHANGED <<otherVars, now, stokvelVars, individual_savings, scheduleVars>>
       /\ IF amount <= 0 \/ amount > MAX_AMOUNT * Rand THEN fail("amount")
          ELSE IF ~individual_savings[u].exists THEN fail("no_account")
          ELSE IF insufficient_funds(amount, get_total_savings(u))
          THEN fail("insufficient")
          ELSE  /\ pin_counter' = pin_counter + 1
                /\ pins' = Append(ps, NewPin(u, phone, amount,
                                "individual_savings", u, code, now))
                /\ last' = Call("request_individual_withdrawal", u,
                                pin_counter + 1, amount, "", "", TRUE, "")

below_minimum_never(amount) == FALSE

\* "Minimum withdrawal amount is R10."
below_minimum(amount) == amount < MIN_STOKVEL_WITHDRAWAL * Rand

is_full_withdrawal_always(amount, total_payout) == TRUE

\* "only mark payout as complete if withdrawing full amount"
is_full_withdrawal(amount, total_payout) == amount >= total_payout

\* `code` is the pin code that _generate_pin draws if a pin is created
RequestStokvelWithdrawal(u, phone, amount, code) ==
    LET ps == cleanup_expired_pins(pins, now)
        fail(why) ==
            /\ pins' = ps
            /\ UNCHANGED pin_counter
            /\ last' = Call("request_stokvel_withdrawal", u, 0, amount,
                            "", "", FALSE, why)
    IN /\ pin_counter < MaxPins
       /\ UNCHANGED <<otherVars, now, stokvelVars, individual_savings>>
       /\ IF u \notin get_accepted_members
          THEN fail("not_member") /\ UNCHANGED scheduleVars
          ELSE \E order \in Shuffles(get_accepted_members) :
               LET s == get_or_create_schedule(order)
                   total_payout == get_stokvel_total
                   amt == IF amount = NoAmount
                          THEN Min(total_payout, MAX_AMOUNT * Rand) ELSE amount
               IN /\ has_schedule' = TRUE
                  /\ IF ~is_member_next(s.upcoming_payouts, u)
                     THEN fail("not_turn") /\ SetSchedule(s)
                     ELSE IF total_payout <= 0
                     THEN fail("no_funds") /\ SetSchedule(s)
                     ELSE IF below_minimum(amt)
                     THEN fail("minimum") /\ SetSchedule(s)
                     ELSE IF amt > MAX_AMOUNT * Rand
                     THEN fail("maximum") /\ SetSchedule(s)
                     ELSE IF amt > total_payout
                     THEN fail("exceeds") /\ SetSchedule(s)
                     ELSE \E again \in Shuffles(Range(s.current_cycle_members)) :
                          /\ pin_counter' = pin_counter + 1
                          /\ pins' = Append(ps, NewPin(u, phone, amt,
                                        "stokvel_payout", StokvelId, code, now))
                          /\ SetSchedule(IF is_full_withdrawal(amt, total_payout)
                                         THEN complete_payout(s, u, amt, now, again)
                                         ELSE s)
                          /\ last' = Call("request_stokvel_withdrawal", u,
                                          pin_counter + 1, amount, "", "",
                                          TRUE, "")

VerifyAndRedeemPin(code, phone) ==
    LET ps == cleanup_expired_pins(pins, now)
        i == FindPin(ps, code, phone)
        fail(why) ==
            /\ pins' = ps
            /\ last' = Call("verify_and_redeem_pin", "", i, NoAmount, code,
                            phone, FALSE, why)
    IN /\ UNCHANGED <<otherVars, now, stokvelVars, individual_savings, scheduleVars,
                      pin_counter>>
       /\ IF i = 0 THEN fail("invalid")
          ELSE IF ~is_valid(ps[i], now) THEN fail("expired_or_used")
          ELSE IF RedeemRaises(ps[i], now) THEN fail("not_valid")
          ELSE /\ pins' = [ps EXCEPT ![i] = redeem(ps[i], now)]
               /\ last' = Call("verify_and_redeem_pin", ps[i].user_id, i,
                               ps[i].amount, code, phone, TRUE, "")

not_own_withdrawal_never(pin, u) == FALSE

\* "You can only cancel your own withdrawals."
not_own_withdrawal(pin, u) == pin.user_id # u

CancelWithdrawal(pin_id, u) ==
    LET fail(why) ==
            /\ UNCHANGED pins
            /\ last' = Call("cancel_withdrawal", u, pin_id, NoAmount, "", "",
                            FALSE, why)
    IN /\ UNCHANGED <<otherVars, now, stokvelVars, individual_savings, scheduleVars,
                      pin_counter>>
       /\ IF pin_id \notin DOMAIN pins THEN fail("not_found")
          ELSE IF not_own_withdrawal(pins[pin_id], u) THEN fail("not_owner")
          ELSE IF CancelRaises(pins[pin_id]) THEN fail("not_pending")
          ELSE /\ pins' = [pins EXCEPT ![pin_id] = cancel(pins[pin_id])]
               /\ last' = Call("cancel_withdrawal", u, pin_id, NoAmount, "",
                               "", TRUE, "")

Max(a, b) == IF a >= b THEN a ELSE b

\* the pins get_remaining_payout_amount counts: the stokvel payouts of u
\* that are pending or completed
user_stokvel_pins(ps, u) ==
    {i \in DOMAIN ps : /\ ps[i].user_id = u
                       /\ ps[i].source_id = StokvelId
                       /\ ps[i].withdrawal_type = "stokvel_payout"
                       /\ ps[i].status \in {"pending", "completed"}}

withdrawn_amount(ps, u) ==
    SumOver([i \in DOMAIN ps |-> ps[i].amount], user_stokvel_pins(ps, u))

get_remaining_payout_amount_unfloored(s, u) ==
    IF ~is_member_next(s.upcoming_payouts, u) THEN 0
    ELSE get_stokvel_total - withdrawn_amount(pins, u)

\* the value get_remaining_payout_amount returns, s being the schedule
\* that get_or_create_schedule hands it
get_remaining_payout_amount(s, u) ==
    IF ~is_member_next(s.upcoming_payouts, u) THEN 0
    ELSE round2(Max(0, get_stokvel_total - withdrawn_amount(pins, u)))

\* get_remaining_payout_amount: a query, which creates the schedule if
\* there is none yet and does not purge expired pins
GetRemainingPayoutAmount(u) ==
    /\ UNCHANGED <<otherVars, now, stokvelVars, individual_savings, pinVars>>
    /\ \E order \in Shuffles(get_accepted_members) :
          LET s == get_or_create_schedule(order)
          IN /\ has_schedule' = TRUE
             /\ SetSchedule(s)
             /\ last' = Call("get_remaining_payout_amount", u, 0,
                             get_remaining_payout_amount(s, u), "", "",
                             TRUE, "")

\* get_user_pins: a query, whose only effect is the expiry purge
GetUserPins(u) ==
    /\ pins' = cleanup_expired_pins(pins, now)
    /\ last' = Call("get_user_pins", u, 0, NoAmount, "", "", TRUE, "")
    /\ UNCHANGED <<otherVars, now, stokvelVars, individual_savings, scheduleVars,
                   pin_counter>>

\* The methods of a PaymentPIN object, called on the pin itself
PinRedeem(i) ==
    /\ i \in DOMAIN pins
    /\ pins' = [pins EXCEPT ![i] = redeem(pins[i], now)]
    /\ last' = Call("redeem", pins[i].user_id, i, NoAmount, "", "",
                    ~RedeemRaises(pins[i], now),
                    IF RedeemRaises(pins[i], now) THEN "not_valid" ELSE "")
    /\ UNCHANGED <<otherVars, now, stokvelVars, individual_savings, scheduleVars,
                   pin_counter>>

PinCancel(i) ==
    /\ i \in DOMAIN pins
    /\ pins' = [pins EXCEPT ![i] = cancel(pins[i])]
    /\ last' = Call("cancel", pins[i].user_id, i, NoAmount, "", "",
                    ~CancelRaises(pins[i]),
                    IF CancelRaises(pins[i]) THEN "not_pending" ELSE "")
    /\ UNCHANGED <<otherVars, now, stokvelVars, individual_savings, scheduleVars,
                   pin_counter>>

PinMarkExpired(i) ==
    /\ i \in DOMAIN pins
    /\ pins' = [pins EXCEPT ![i] = mark_expired(pins[i], now)]
    /\ last' = Call("mark_expired", pins[i].user_id, i, NoAmount, "", "",
                    mark_expired(pins[i], now) # pins[i], "")
    /\ UNCHANGED <<otherVars, now, stokvelVars, individual_savings, scheduleVars,
                   pin_counter>>

\* The clock advances
Tick(d, max) ==
    /\ now + d <= max
    /\ now' = now + d
    /\ UNCHANGED <<otherVars, stokvelVars, individual_savings, pinVars,
                   scheduleVars, last>>

-----------------------------------------------------------------------------
(* SpecPin: the PIN lifecycle, on pins issued against one funded savings   *)
(* account (u1 has saved R500, u2 has no account)                          *)

PinUsers == {"u1", "u2"}
IndividualAmounts == {0, 300 * Rand, 600 * Rand, 6000 * Rand}

InitPin ==
    /\ now = 0
    /\ members = [u \in Users |->
          IF u = Creator THEN Member("accepted", TRUE) ELSE NotMember]
    /\ contributions = [u \in Users |-> <<>>]
    /\ manager_id = Creator
    /\ payout_schedule = <<>>
    /\ individual_savings = [u \in Users |->
          [exists |-> u = Creator,
           contributions |-> IF u = Creator THEN <<200 * Rand, 300 * Rand>> ELSE <<>>]]
    /\ pins = <<>>
    /\ pin_counter = 0
    /\ has_schedule = FALSE
    /\ current_cycle_members = <<>>
    /\ upcoming_payouts = <<>>
    /\ payout_history = <<>>
    /\ account_security = [u \in Users |-> NoAccount]
    /\ action_counts = [k \in RateKeys |-> <<>>]
    /\ pin_events = <<>>
    /\ pc = [t \in Threads |-> "idle"]
    /\ purge_found = [t \in Threads |-> {}]
    /\ matching_pin = [t \in Threads |-> 0]
    /\ result = [t \in Threads |-> "none"]
    /\ votes = <<>>
    /\ monthly_amount = 500 * Rand
    /\ accepting = <<>>
    /\ last = NoCall

NextPin ==
    \/ \E u \in PinUsers, a \in IndividualAmounts, c \in PinCodes :
          RequestIndividualWithdrawal(u, PhoneOf[u], a, c)
    \/ \E c \in PinCodes, ph \in Phones : VerifyAndRedeemPin(c, ph)
    \/ \E i \in 1..(MaxPins + 1), u \in PinUsers : CancelWithdrawal(i, u)
    \/ GetUserPins(Creator)
    \/ \E i \in 1..MaxPins : PinRedeem(i)
    \/ \E i \in 1..MaxPins : PinCancel(i)
    \/ \E i \in 1..MaxPins : PinMarkExpired(i)
    \/ Tick(PinTick, MaxTime)

SpecPin == InitPin /\ [][NextPin]_vars

-----------------------------------------------------------------------------
(* SpecTurn: turn enforcement, on a stokvel that starts as constructed     *)
(* (the creator alone) and whose membership and pool change                *)

TurnAmounts == {NoAmount, 10 * Rand}
TurnCodes == {"11111"}
ContributionAmounts == {20 * Rand}

InitTurn ==
    /\ now = 0
    /\ members = [u \in Users |->
          IF u = Creator THEN Member("accepted", TRUE) ELSE NotMember]
    /\ contributions = [u \in Users |-> <<>>]
    /\ manager_id = Creator
    /\ payout_schedule = <<>>
    /\ individual_savings = [u \in Users |->
          [exists |-> FALSE, contributions |-> <<>>]]
    /\ pins = <<>>
    /\ pin_counter = 0
    /\ has_schedule = FALSE
    /\ current_cycle_members = <<>>
    /\ upcoming_payouts = <<>>
    /\ payout_history = <<>>
    /\ account_security = [u \in Users |-> NoAccount]
    /\ action_counts = [k \in RateKeys |-> <<>>]
    /\ pin_events = <<>>
    /\ pc = [t \in Threads |-> "idle"]
    /\ purge_found = [t \in Threads |-> {}]
    /\ matching_pin = [t \in Threads |-> 0]
    /\ result = [t \in Threads |-> "none"]
    /\ votes = <<>>
    /\ monthly_amount = 500 * Rand
    /\ accepting = <<>>
    /\ last = NoCall

NextTurn ==
    \/ \E u \in Users : InviteMember(u)
    \/ \E u \in Users : AcceptInvitation(u)
    \/ \E u \in Users : LeaveStokvel(u)
    \/ \E u \in Users, a \in ContributionAmounts :
          LedgerSize < MaxContributions /\ AddContribution(u, a)
    \/ \E u \in Users, a \in TurnAmounts, c \in TurnCodes :
          RequestStokvelWithdrawal(u, PhoneOf[u], a, c)

SpecTurn == InitTurn /\ [][NextTurn]_vars

-----------------------------------------------------------------------------
(* SpecSchedule: a StokvelPayoutSchedule on its own.  It starts as          *)
(* constructed (empty), is initialized once with a member list, as         *)
(* get_or_create_schedule does, and complete_payout is called for any      *)
(* member in any order.                                                    *)

PayoutAmounts == {100 * Rand}

InitializePayoutOrder(S) ==
    /\ current_cycle_members = <<>>
    /\ \E order \in Shuffles(S) :
          /\ SetSchedule(initialize_payout_order(TheSchedule, order))
          /\ last' = Call("initialize_payout_order", "", Cardinality(S),
                          NoAmount, "", "", ~InitializeRaises(order), "")
    /\ UNCHANGED <<otherVars, now, stokvelVars, individual_savings, pinVars, has_schedule>>

CompletePayout(m, amount) ==
    /\ Len(payout_history) < MaxHistory
    /\ \E order \in Shuffles(Range(current_cycle_members)) :
          SetSchedule(complete_payout(TheSchedule, m, amount, now, order))
    /\ last' = Call("complete_payout", m, 0, amount, "", "",
                    ~CompletePayoutRaises(upcoming_payouts, m),
                    IF upcoming_payouts = <<>> THEN "none_scheduled"
                    ELSE IF upcoming_payouts[1] # m THEN "not_turn" ELSE "")
    /\ UNCHANGED <<otherVars, now, stokvelVars, individual_savings, pinVars, has_schedule>>

InitSchedule ==
    /\ now = 0
    /\ members = [u \in Users |->
          IF u = Creator THEN Member("accepted", TRUE) ELSE NotMember]
    /\ contributions = [u \in Users |-> <<>>]
    /\ manager_id = Creator
    /\ payout_schedule = <<>>
    /\ individual_savings = [u \in Users |->
          [exists |-> FALSE, contributions |-> <<>>]]
    /\ pins = <<>>
    /\ pin_counter = 0
    /\ has_schedule = FALSE
    /\ current_cycle_members = <<>>
    /\ upcoming_payouts = <<>>
    /\ payout_history = <<>>
    /\ account_security = [u \in Users |-> NoAccount]
    /\ action_counts = [k \in RateKeys |-> <<>>]
    /\ pin_events = <<>>
    /\ pc = [t \in Threads |-> "idle"]
    /\ purge_found = [t \in Threads |-> {}]
    /\ matching_pin = [t \in Threads |-> 0]
    /\ result = [t \in Threads |-> "none"]
    /\ votes = <<>>
    /\ monthly_amount = 500 * Rand
    /\ accepting = <<>>
    /\ last = NoCall

NextSchedule ==
    \/ \E S \in SUBSET Users : InitializePayoutOrder(S)
    \/ \E m \in Users, a \in PayoutAmounts : CompletePayout(m, a)

SpecSchedule == InitSchedule /\ [][NextSchedule]_vars

-----------------------------------------------------------------------------
(* SpecRace: several calls of verify_and_redeem_pin with the same code and *)
(* phone run at once.  PaymentsManager takes no lock, so the calls          *)
(* interleave statement by statement; each call reads the clock and the    *)
(* pin's fields where the code reads them.                                 *)

RaceCode == "11111"
RacePhone == "p1"
RaceMaxTime == 1440

raceFrame == UNCHANGED <<secVars, voteVars, accepting, now, stokvelVars, individual_savings,
                         scheduleVars, pin_counter, last>>

\* a store calls verify_and_redeem_pin(RaceCode, RacePhone)
RaceCall(t) ==
    /\ pc[t] = "idle"
    /\ pc' = [pc EXCEPT ![t] = "purge"]
    /\ UNCHANGED <<pins, purge_found, matching_pin, result>>
    /\ raceFrame

\* _cleanup_expired_pins, the test of mark_expired ...
RacePurgeTest(t) ==
    /\ pc[t] = "purge"
    /\ purge_found' = [purge_found EXCEPT ![t] =
          {i \in DOMAIN pins : mark_expired(pins[i], now) # pins[i]}]
    /\ pc' = [pc EXCEPT ![t] = "purge_write"]
    /\ UNCHANGED <<pins, matching_pin, result>>
    /\ raceFrame

\* ... and its assignment self.status = EXPIRED
RacePurgeWrite(t) ==
    /\ pc[t] = "purge_write"
    /\ pins' = [i \in DOMAIN pins |->
                  IF i \in purge_found[t]
                  THEN [pins[i] EXCEPT !.status = "expired"] ELSE pins[i]]
    /\ pc' = [pc EXCEPT ![t] = "find"]
    /\ UNCHANGED <<purge_found, matching_pin, result>>
    /\ raceFrame

\* the loop that finds the pin by code and phone
RaceFind(t) ==
    /\ pc[t] = "find"
    /\ matching_pin' = [matching_pin EXCEPT ![t] =
                           FindPin(pins, RaceCode, RacePhone)]
    /\ pc' = [pc EXCEPT ![t] = "check"]
    /\ UNCHANGED <<pins, purge_found, result>>
    /\ raceFrame

\* if not matching_pin: raise; if not matching_pin.is_valid(): raise
RaceCheck(t) ==
    /\ pc[t] = "check"
    /\ IF matching_pin[t] = 0 \/ ~is_valid(pins[matching_pin[t]], now)
       THEN /\ pc' = [pc EXCEPT ![t] = "done"]
            /\ result' = [result EXCEPT ![t] = "error"]
       ELSE /\ pc' = [pc EXCEPT ![t] = "redeem"]
            /\ UNCHANGED result
    /\ UNCHANGED <<pins, purge_found, matching_pin>>
    /\ raceFrame

\* redeem(): if not self.is_valid(): raise
RaceRedeemTest(t) ==
    /\ pc[t] = "redeem"
    /\ IF RedeemRaises(pins[matching_pin[t]], now)
       THEN /\ pc' = [pc EXCEPT ![t] = "done"]
            /\ result' = [result EXCEPT ![t] = "error"]
       ELSE /\ pc' = [pc EXCEPT ![t] = "set_status"]
            /\ UNCHANGED result
    /\ UNCHANGED <<pins, purge_found, matching_pin>>
    /\ raceFrame

\* redeem(): self.status = COMPLETED
RaceSetStatus(t) ==
    /\ pc[t] = "set_status"
    /\ pins' = [pins EXCEPT ![matching_pin[t]].status = "completed"]
    /\ pc' = [pc EXCEPT ![t] = "set_redeemed_at"]
    /\ UNCHANGED <<purge_found, matching_pin, result>>
    /\ raceFrame

\* redeem(): self.redeemed_at = datetime.now(), and the receipt is returned
RaceSetRedeemedAt(t) ==
    /\ pc[t] = "set_redeemed_at"
    /\ pins' = [pins EXCEPT ![matching_pin[t]].redeemed_at = now]
    /\ pc' = [pc EXCEPT ![t] = "done"]
    /\ result' = [result EXCEPT ![t] = "success"]
    /\ UNCHANGED <<purge_found, matching_pin>>
    /\ raceFrame

\* one pending pin of u1, issued by request_individual_withdrawal
InitRace ==
    /\ now = 0
    /\ members = [u \in Users |->
          IF u = Creator THEN Member("accepted", TRUE) ELSE NotMember]
    /\ contributions = [u \in Users |-> <<>>]
    /\ manager_id = Creator
    /\ payout_schedule = <<>>
    /\ individual_savings = [u \in Users |->
          [exists |-> u = Creator,
           contributions |-> IF u = Creator THEN <<200 * Rand, 300 * Rand>> ELSE <<>>]]
    /\ pins = <<NewPin(Creator, RacePhone, 300 * Rand, "individual_savings", Creator,
                       RaceCode, 0)>>
    /\ pin_counter = 1
    /\ has_schedule = FALSE
    /\ current_cycle_members = <<>>
    /\ upcoming_payouts = <<>>
    /\ payout_history = <<>>
    /\ account_security = [u \in Users |-> NoAccount]
    /\ action_counts = [k \in RateKeys |-> <<>>]
    /\ pin_events = <<>>
    /\ pc = [t \in Threads |-> "idle"]
    /\ purge_found = [t \in Threads |-> {}]
    /\ matching_pin = [t \in Threads |-> 0]
    /\ result = [t \in Threads |-> "none"]
    /\ votes = <<>>
    /\ monthly_amount = 500 * Rand
    /\ accepting = <<>>
    /\ last = NoCall

NextRace ==
    \/ \E t \in Threads : RaceCall(t)
    \/ \E t \in Threads : RacePurgeTest(t)
    \/ \E t \in Threads : RacePurgeWrite(t)
    \/ \E t \in Threads : RaceFind(t)
    \/ \E t \in Threads : RaceCheck(t)
    \/ \E t \in Threads : RaceRedeemTest(t)
    \/ \E t \in Threads : RaceSetStatus(t)
    \/ \E t \in Threads : RaceSetRedeemedAt(t)
    \/ Tick(RaceMaxTime, RaceMaxTime)

SpecRace == InitRace /\ [][NextRace]_vars

-----------------------------------------------------------------------------
(* SpecSec: the security layer for one user, whose pin is ActualPin and     *)
(* whose phone is ActualPhone                                              *)

SecUser == "u1"
ActualPin == "11111"
ActualPhone == "p1"
SecAttempts == {<<"11111", "p1">>, <<"22222", "p1">>, <<"11111", "p2">>}

InitSec == InitSchedule

NextSec ==
    \/ \E a \in SecAttempts :
          VerifyPinAttempt(a[1], a[2], ActualPin, ActualPhone, SecUser)
    \/ UnlockUserAccount(SecUser)
    \/ Tick(SecTick, SecMaxTime)

SpecSec == InitSec /\ [][NextSec]_vars

-----------------------------------------------------------------------------
(* SpecGate: the security layer and the payments layer side by side, for   *)
(* the user of SpecPin's funded savings account.  PaymentsManager holds no *)
(* reference to the SecurityManager, so its operations are the unguarded   *)
(* actions above; verify_withdrawal_request is a call of its own, made by  *)
(* the caller that chooses to make it.                                     *)

GateUser == "u1"
GateCode == "11111"
GateAmount == 300 * Rand
GateWrongCode == "22222"
GateMaxTime == 15
RateTick == 30
RateMaxTime == 90
LockTick == 30
LockMaxTime == 31
DenialTick == 30
DenialMaxTime == 61

InitGate == InitPin

NextGate ==
    \/ VerifyPinAttempt(GateWrongCode, PhoneOf[GateUser], GateCode,
                        PhoneOf[GateUser], GateUser)
    \/ VerifyWithdrawalRequest(GateUser)
    \/ RequestIndividualWithdrawal(GateUser, PhoneOf[GateUser], GateAmount,
                                   GateCode)
    \/ VerifyAndRedeemPin(GateCode, PhoneOf[GateUser])
    \/ Tick(SecTick, GateMaxTime)

SpecGate == InitGate /\ [][NextGate]_vars

-----------------------------------------------------------------------------
(* SpecMembers: membership of one stokvel, from its construction           *)

NextMembers ==
    \/ \E u \in Users : InviteMember(u)
    \/ \E u \in Users : AcceptInvitation(u)
    \/ \E u \in Users : RejectInvitation(u)
    \/ \E u \in Users : LeaveStokvel(u)
    \/ \E u \in Users : ManagerDemoteSelf(u)
    \/ Tick(VoteTick, VoteMaxTime)

SpecMembers == InitTurn /\ [][NextMembers]_vars

-----------------------------------------------------------------------------
(* SpecVote: voting in a stokvel of two accepted members (the creator      *)
(* invited u2, who accepted); u3 is not a member                           *)

VoteAmounts == {600 * Rand}
VoteInitiators == {"u1"}
ProposedManagers == {"u2"}

\* the stokvel after the creator has invited the users of `accepted` and of
\* `pending` and each of the former has accepted, `order` being the last
\* shuffle
StokvelOf(all, accepted, pending, order) ==
    /\ now = 0
    /\ members = [u \in all |->
          IF u \in accepted THEN Member("accepted", u = Creator)
          ELSE IF u \in pending THEN Member("pending", FALSE)
          ELSE NotMember]
    /\ contributions = [u \in all |-> <<>>]
    /\ manager_id = Creator
    /\ payout_schedule = order
    /\ individual_savings = [u \in all |->
          [exists |-> FALSE, contributions |-> <<>>]]
    /\ pins = <<>>
    /\ pin_counter = 0
    /\ has_schedule = FALSE
    /\ current_cycle_members = <<>>
    /\ upcoming_payouts = <<>>
    /\ payout_history = <<>>
    /\ account_security = [u \in Users |-> NoAccount]
    /\ action_counts = [k \in RateKeys |-> <<>>]
    /\ pin_events = <<>>
    /\ pc = [t \in Threads |-> "idle"]
    /\ purge_found = [t \in Threads |-> {}]
    /\ matching_pin = [t \in Threads |-> 0]
    /\ result = [t \in Threads |-> "none"]
    /\ monthly_amount = 500 * Rand
    /\ last = NoCall

InitVote ==
    /\ StokvelOf(Users, {"u1", "u2"}, {}, <<"u2", "u1">>)
    /\ votes = <<>>
    /\ accepting = <<>>

NextVote ==
    \/ \E u \in VoteInitiators, w \in ProposedManagers : InitiateManagerVote(u, w)
    \/ \E u \in VoteInitiators, a \in VoteAmounts : InitiateAmountChangeVote(u, a)
    \/ \E i \in 1..MaxVotes, u \in Users, y \in BOOLEAN : CastVote(i, u, y)
    \/ Tick(VoteTick, VoteMaxTime)

SpecVote == InitVote /\ [][NextVote]_vars

-----------------------------------------------------------------------------
(* SpecBallot: the ballots of one vote, in a stokvel of four or of five    *)
(* accepted members; the creator has just initiated the vote               *)

BallotUsers == {"u1", "u2", "u3", "u4", "u5"}
BallotOrder == <<"u3", "u1", "u4", "u2", "u5">>
BallotVotes == {Vote("manager_change", "u2", Creator, 0),
                Vote("monthly_amount_change", 600 * Rand, Creator, 0)}

InitBallot ==
    /\ \/ StokvelOf(BallotUsers, BallotUsers, {}, BallotOrder)
       \/ StokvelOf(BallotUsers, BallotUsers \ {"u5"}, {},
                    SubSeq(BallotOrder, 1, 4))
    /\ \E v \in BallotVotes : votes = <<v>>
    /\ accepting = <<>>

NextBallot ==
    \/ \E u \in BallotUsers, y \in BOOLEAN : CastVote(1, u, y)
    \/ Tick(VoteTick, VoteMaxTime)

SpecBallot == InitBallot /\ [][NextBallot]_vars

-----------------------------------------------------------------------------
(* SpecManager: who manages a stokvel whose three users have all accepted  *)

Candidate == "u3"

InitManager ==
    /\ StokvelOf(Users, Users, {}, <<"u3", "u1", "u2">>)
    /\ votes = <<>>
    /\ accepting = <<>>

NextManager ==
    \/ \E u \in Users : LeaveStokvel(u)
    \/ \E u \in Users : ManagerDemoteSelf(u)
    \/ InitiateManagerVote(Creator, Candidate)
    \/ \E i \in 1..MaxVotes, u \in Users : CastVote(i, u, TRUE)

SpecManager == InitManager /\ [][NextManager]_vars


-----------------------------------------------------------------------------
(* SpecAccept: concurrent accept_invitation calls, one per pending member, *)
(* on a stokvel that has MAX_MEMBERS - 1 accepted members.  Each call is a *)
(* thread of the same process; the interpreter may switch threads between  *)
(* the capacity test, the write of the status and the recalculation of the *)
(* payout schedule, and nothing in savings.py holds a lock.                *)

NumAccepting == 2
MemberNames == <<"u1", "u2", "u3", "u4", "u5", "u6", "u7", "u8", "u9", "u10",
                 "u11", "u12", "u13", "u14">>
AcceptedAtStart == {MemberNames[i] : i \in 1..(MAX_MEMBERS - 1)}
PendingAtStart ==
    {MemberNames[i] : i \in MAX_MEMBERS..(MAX_MEMBERS + NumAccepting - 1)}

\* the members of S in the order of MemberNames
InNameOrder(S) == SelectSeq(MemberNames, LAMBDA u : u \in S)

\* random.shuffle can return any order of S; the calls race on the status
\* and the capacity, not on the order, and of the orders only the
\* rotations of one are drawn here
SomeShuffles(S) ==
    LET base == InNameOrder(S)
        n == Len(base)
    IN {[i \in 1..n |-> base[((i + k - 1) % n) + 1]] : k \in 0..(n - 1)}

acceptFrame == UNCHANGED <<secVars, raceVars, voteVars, now, individual_savings,
                           pinVars, scheduleVars, manager_id, last>>

\* lines 185-192: the three tests; can_add_member reads the shared table
AcceptTest(m) ==
    /\ accepting[m] = "idle"
    /\ acceptFrame
    /\ UNCHANGED <<members, contributions, payout_schedule>>
    /\ accepting' = [accepting EXCEPT ![m] =
          IF members[m].status # "pending" THEN "raised"
          ELSE IF ~can_add_member THEN "raised"
          ELSE "tested"]

\* lines 194-196: the status, joined_at and the empty ledger
AcceptWrite(m) ==
    /\ accepting[m] = "tested"
    /\ acceptFrame
    /\ members' = [members EXCEPT ![m].status = "accepted"]
    /\ contributions' = [contributions EXCEPT ![m] = <<>>]
    /\ UNCHANGED payout_schedule
    /\ accepting' = [accepting EXCEPT ![m] = "written"]

\* lines 198-201: _calculate_payout_dates, then return True
AcceptRecalculate(m) ==
    /\ accepting[m] = "written"
    /\ acceptFrame
    /\ UNCHANGED <<members, contributions>>
    /\ \E order \in SomeShuffles(get_accepted_members) :
          payout_schedule' = calculate_payout_dates(members, payout_schedule, order)
    /\ accepting' = [accepting EXCEPT ![m] = "returned"]

InitAccept ==
    /\ StokvelOf(AcceptedAtStart \cup PendingAtStart, AcceptedAtStart,
                 PendingAtStart, InNameOrder(AcceptedAtStart))
    /\ votes = <<>>
    /\ accepting = [m \in PendingAtStart |-> "idle"]

NextAccept ==
    \/ \E m \in PendingAtStart : AcceptTest(m)
    \/ \E m \in PendingAtStart : AcceptWrite(m)
    \/ \E m \in PendingAtStart : AcceptRecalculate(m)

SpecAccept == InitAccept /\ [][NextAccept]_vars

-----------------------------------------------------------------------------
(* SpecLedger: contributions to a stokvel whose three users have all       *)
(* accepted.  add_contribution takes any float in (0, 5000], so an amount  *)
(* need not be a whole number of cents.                                    *)

LedgerAmounts == {4, 20 * Rand, 0}

NextLedger ==
    \/ \E u \in Users, a \in LedgerAmounts :
          LedgerSize < MaxLedger /\ AddContribution(u, a)
    \/ \E u \in Users : LeaveStokvel(u)

SpecLedger == InitManager /\ [][NextLedger]_vars

-----------------------------------------------------------------------------
(* SpecPool: stokvel payouts against a pool that contributions fill, in a  *)
(* stokvel whose three users have all accepted                             *)

PoolContributions == {5 * Rand, 5000 * Rand}
PoolRequests == {NoAmount, 5 * Rand, 10 * Rand, 6000 * Rand}
PoolCode == "11111"
PoolLeavers == {"u3"}

NextPool ==
    \/ \E u \in Users, a \in PoolContributions :
          LedgerSize < MaxLedger /\ AddContribution(u, a)
    \/ \E u \in Users, a \in PoolRequests :
          RequestStokvelWithdrawal(u, PhoneOf[u], a, PoolCode)
    \/ \E u \in Users : GetRemainingPayoutAmount(u)
    \/ \E u \in PoolLeavers : LeaveStokvel(u)

SpecPool == InitManager /\ [][NextPool]_vars

-----------------------------------------------------------------------------
(* SpecRate: withdrawal requests of two users put to the security layer,   *)
(* over a time that is longer than the rate window                         *)

RateUsers == {"u1", "u2"}

NextRate ==
    \/ \E u \in RateUsers : VerifyWithdrawalRequest(u)
    \/ Tick(RateTick, RateMaxTime)

SpecRate == InitSchedule /\ [][NextRate]_vars

-----------------------------------------------------------------------------
(* SpecAttempts: several calls of verify_pin_attempt for one user, each    *)
(* with a wrong code, run at once.  SecurityManager and AccountSecurity    *)
(* take no lock, so the calls interleave between the lockout check, the    *)
(* increment of the counter and the threshold test.                        *)

AttemptUser == "u1"
WrongPin == "22222"

attemptFrame == UNCHANGED <<purge_found, matching_pin, result, voteVars,
                            accepting, now, stokvelVars, individual_savings,
                            pinVars, scheduleVars>>

\* lines 273-293: check_if_locked, check_rate_limit and record_attempt
AttemptCheck(t) ==
    LET u == AttemptUser
        key == <<"pin_verify", u>>
        acc == AfterLockCheck(get_or_create_account_security(u), now)
        kept == InWindow(action_counts[key], now, RATE_WINDOW_MINUTES)
    IN /\ pc[t] = "idle"
       /\ attemptFrame
       /\ UNCHANGED pin_events
       /\ account_security' = [account_security EXCEPT ![u] = acc]
       /\ IF check_if_locked(get_or_create_account_security(u), now)
          THEN /\ UNCHANGED <<action_counts, pc>>
               /\ last' = SecCall("verify_pin_attempt", u, WrongPin,
                                  PhoneOf[u], FALSE, "locked")
          ELSE IF ~check_rate_limit(action_counts[key], now,
                                    MAX_PIN_VERIFICATIONS, RATE_WINDOW_MINUTES)
          THEN /\ action_counts' = [action_counts EXCEPT ![key] = kept]
               /\ UNCHANGED pc
               /\ last' = SecCall("verify_pin_attempt", u, WrongPin,
                                  PhoneOf[u], FALSE, "rate_limited")
          ELSE /\ action_counts' =
                     [action_counts EXCEPT ![key] = record_attempt(kept, now)]
               /\ pc' = [pc EXCEPT ![t] = "count"]
               /\ UNCHANGED last

\* record_failed_pin_attempt, lines 101-102: self.failed_pin_attempts += 1
AttemptCount(t) ==
    /\ pc[t] = "count"
    /\ attemptFrame
    /\ UNCHANGED <<action_counts, pin_events, last>>
    /\ account_security' = [account_security EXCEPT
          ![AttemptUser].failed_pin_attempts = @ + 1]
    /\ pc' = [pc EXCEPT ![t] = "threshold"]

\* record_failed_pin_attempt, lines 104-105: the threshold test and
\* lock_account; then the event is logged and the message returned
AttemptThreshold(t) ==
    LET u == AttemptUser
        acc == account_security[u]
        locked == IF acc.failed_pin_attempts >= MAX_FAILED_ATTEMPTS
                  THEN lock_account(acc, now) ELSE acc
    IN /\ pc[t] = "threshold"
       /\ attemptFrame
       /\ UNCHANGED action_counts
       /\ account_security' = [account_security EXCEPT
                                  ![u] = AfterLockCheck(locked, now)]
       /\ pin_events' = log_security_event(pin_events,
             PinEvent("failed_pin_attempt", locked.failed_pin_attempts))
       /\ pc' = [pc EXCEPT ![t] = "idle"]
       /\ last' = SecCall("verify_pin_attempt", u, WrongPin, PhoneOf[u],
                          FALSE, IF check_if_locked(locked, now)
                                 THEN "locked_out" ELSE "invalid")

NextAttempts ==
    \/ \E t \in Threads : AttemptCheck(t)
    \/ \E t \in Threads : AttemptCount(t)
    \/ \E t \in Threads : AttemptThreshold(t)
    \/ UnlockUserAccount(AttemptUser)

SpecAttempts == InitSchedule /\ [][NextAttempts]_vars

-----------------------------------------------------------------------------
(* SpecContrib: contributions to a stokvel from its construction, by users *)
(* of every membership status; the amounts are 0, R5000 and R5000.001      *)

ContribAmounts == {0, 5000 * Rand, 5000 * Rand + 1}

NextContrib ==
    \/ \E u \in Users : InviteMember(u)
    \/ \E u \in Users : AcceptInvitation(u)
    \/ \E u \in Users : RejectInvitation(u)
    \/ \E u \in Users : LeaveStokvel(u)
    \/ \E u \in Users, a \in ContribAmounts :
          LedgerSize < MaxLedger /\ AddContribution(u, a)

SpecContrib == InitTurn /\ [][NextContrib]_vars

-----------------------------------------------------------------------------
(* SpecAccount: one account driven through the three entry points of the   *)
(* security layer, over a time in which a lockout runs out                 *)

AccountAttempts == {<<"11111", "p1">>, <<"22222", "p1">>}

NextAccount ==
    \/ \E a \in AccountAttempts :
          VerifyPinAttempt(a[1], a[2], ActualPin, ActualPhone, SecUser)
    \/ VerifyWithdrawalRequest(SecUser)
    \/ UnlockUserAccount(SecUser)
    \/ Tick(LockTick, LockMaxTime)

SpecAccount == InitSchedule /\ [][NextAccount]_vars

-----------------------------------------------------------------------------
(* SpecDenial: the requests of SpecAccount, with a clock that goes up to   *)
(* the end of the rate window                                              *)

NextDenial ==
    \/ \E a \in AccountAttempts :
          VerifyPinAttempt(a[1], a[2], ActualPin, ActualPhone, SecUser)
    \/ VerifyWithdrawalRequest(SecUser)
    \/ UnlockUserAccount(SecUser)
    \/ Tick(DenialTick, DenialMaxTime)

SpecDenial == InitSchedule /\ [][NextDenial]_vars

-----------------------------------------------------------------------------
(* SpecRecord: the payout history beside the pins it was written for: the  *)
(* head takes the whole pool, and pins are cancelled or left to expire     *)

RecordContributions == {20 * Rand}
RecordRequests == {NoAmount}

NextRecord ==
    \/ \E a \in RecordContributions :
          LedgerSize < MaxContributions /\ AddContribution(Creator, a)
    \/ \E u \in Users, a \in RecordRequests :
          RequestStokvelWithdrawal(u, PhoneOf[u], a, PoolCode)
    \/ \E i \in 1..MaxPins, u \in Users : CancelWithdrawal(i, u)
    \/ GetUserPins(Creator)
    \/ Tick(PinTick, PinTick)

SpecRecord == InitManager /\ [][NextRecord]_vars

-----------------------------------------------------------------------------
(* Claims about the PIN lifecycle (SpecPin)                                *)

PinStatuses == {"pending", "completed", "expired", "cancelled"}

\* C1: a pin's status is always one of pending, completed, expired and
\* cancelled, and in every step (redeem, cancel, mark_expired,
\* verify_and_redeem_pin, cancel_withdrawal, an expiry purge) a pin that has
\* left pending keeps the status it has: it never changes again and never
\* returns to pending.
C1_TerminalStatusIsFinal ==
    [][\A i \in DOMAIN pins :
          /\ i \in DOMAIN pins'
          /\ pins'[i].status \in PinStatuses
          /\ pins[i].status # "pending" => pins'[i].status = pins[i].status]_vars

\* a cancel_withdrawal by the owner has just been refused on a completed pin
C1_Witness ==
    /\ last.op = "cancel_withdrawal"
    /\ ~last.ok
    /\ last.pin \in DOMAIN pins
    /\ pins[last.pin].status = "completed"
    /\ pins[last.pin].user_id = last.user

\* C2: redeem() on a pin that is pending at a time before expires_at
\* succeeds, sets the status to completed and sets redeemed_at; on any other
\* pin, or at a time at or after expires_at, it raises and leaves the pin's
\* status and redeemed_at as they were.
C2_RedeemContract ==
    [][\A i \in DOMAIN pins : PinRedeem(i) =>
          IF pins[i].status = "pending" /\ now < pins[i].expires_at
          THEN /\ last'.ok
               /\ pins'[i].status = "completed"
               /\ pins'[i].redeemed_at = now
               /\ pins'[i].redeemed_at # NONE
          ELSE /\ ~last'.ok
               /\ pins'[i].status = pins[i].status
               /\ pins'[i].redeemed_at = pins[i].redeemed_at]_vars

\* redeem() has just raised on a pin that is still pending, at the very
\* minute the pin expires
C2_Witness ==
    /\ last.op = "redeem"
    /\ ~last.ok
    /\ last.pin \in DOMAIN pins
    /\ pins[last.pin].status = "pending"
    /\ now = pins[last.pin].expires_at

-----------------------------------------------------------------------------
(* Claims about turn enforcement (SpecTurn)                                *)

\* C4: request_stokvel_withdrawal adds a stokvel_payout pin only for a user
\* who, when the request is made, is an accepted member of the stokvel and
\* the head of its payout queue (the queue the call creates when none exists
\* yet); for a user who is not accepted or not the head the call raises, no
\* pin is added, and the existing queue, cycle and history are unchanged.
C4_TurnEnforcement ==
    [][\A u \in Users :
          (last' # last /\ last'.op = "request_stokvel_withdrawal"
                       /\ last'.user = u) =>
             /\ Len(pins') \in {Len(pins), Len(pins) + 1}
             /\ last'.ok <=> Len(pins') = Len(pins) + 1
             /\ Len(pins') = Len(pins) + 1 =>
                   /\ pins'[Len(pins')].user_id = u
                   /\ pins'[Len(pins')].withdrawal_type = "stokvel_payout"
                   /\ pins'[Len(pins')].source_id = StokvelId
                   /\ members[u].status = "accepted"
                   /\ has_schedule => is_member_next(upcoming_payouts, u)
                   /\ IF Len(payout_history') > Len(payout_history)
                      THEN payout_history'[Len(payout_history')].member_id = u
                      ELSE upcoming_payouts'[1] = u
             /\ Len(pins') = Len(pins) =>
                   /\ pin_counter' = pin_counter
                   /\ payout_history' = payout_history
                   /\ has_schedule => /\ upcoming_payouts' = upcoming_payouts
                                      /\ current_cycle_members' = current_cycle_members
             /\ (\/ members[u].status # "accepted"
                 \/ has_schedule /\ ~is_member_next(upcoming_payouts, u))
                => ~last'.ok /\ Len(pins') = Len(pins)]_vars

\* an accepted member who is not the head has just been refused, after a
\* pin was issued to an earlier head
C4_Witness ==
    /\ last.op = "request_stokvel_withdrawal"
    /\ ~last.ok
    /\ last.why = "not_turn"
    /\ members[last.user].status = "accepted"
    /\ pin_counter >= 1
    /\ upcoming_payouts # <<>>
    /\ upcoming_payouts[1] # last.user

-----------------------------------------------------------------------------
(* Claims about the payout schedule (SpecSchedule)                         *)

IsPermutationOf(q, cycle) ==
    /\ Len(q) = Len(cycle)
    /\ Range(q) = Range(cycle)
    /\ \A i, j \in DOMAIN q : q[i] = q[j] => i = j

\* C5: complete_payout(member, amount) for a member who is not the head of
\* the upcoming queue, or on an empty queue, raises and leaves the upcoming
\* queue, the cycle members and the payout history unchanged.
C5_OutOfTurnPayoutFails ==
    [][(/\ last' # last
        /\ last'.op = "complete_payout"
        /\ (upcoming_payouts = <<>> \/ upcoming_payouts[1] # last'.user))
       => /\ ~last'.ok
          /\ upcoming_payouts' = upcoming_payouts
          /\ current_cycle_members' = current_cycle_members
          /\ payout_history' = payout_history]_vars

\* a member behind the head has just been refused, in the middle of a cycle
C5_Witness ==
    /\ last.op = "complete_payout"
    /\ ~last.ok
    /\ last.why = "not_turn"
    /\ payout_history # <<>>
    /\ last.user \in Range(upcoming_payouts)

\* C6: once the schedule has been initialized the upcoming queue is never
\* empty, and the complete_payout that pops the last member of the queue
\* leaves a queue that is a permutation of the same cycle membership (same
\* set of members, each once).
C6_NewCycleSameMembers ==
    /\ [](current_cycle_members # <<>> => upcoming_payouts # <<>>)
    /\ [][(/\ last'.op = "complete_payout"
           /\ Len(payout_history') = Len(payout_history) + 1
           /\ Len(upcoming_payouts) = 1)
          => /\ IsPermutationOf(upcoming_payouts', current_cycle_members)
             /\ IsPermutationOf(current_cycle_members', current_cycle_members)
             /\ Len(upcoming_payouts') = Len(current_cycle_members)]_vars

\* a cycle of three members has just been completed and a new one started
C6_Witness ==
    /\ last.op = "complete_payout"
    /\ last.ok
    /\ Len(current_cycle_members) = 3
    /\ Len(payout_history) = 3
    /\ Len(upcoming_payouts) = 3

\* the k-th block of n consecutive payout records, n the cycle size
Block(k) ==
    LET n == Len(current_cycle_members) IN
    {i \in DOMAIN payout_history : (k - 1) * n < i /\ i <= k * n}

\* C7: with n members in the cycle, cut the payout history into blocks of n
\* records from the start: within a block no member appears twice, and a
\* full block holds every member of the cycle exactly once.
C7_FairPerCycle ==
    current_cycle_members # <<>> =>
       \A k \in 1..(Len(payout_history) + 1) :
          /\ \A i, j \in Block(k) :
                payout_history[i].member_id = payout_history[j].member_id
                   => i = j
          /\ Cardinality(Block(k)) = Len(current_cycle_members) =>
                {payout_history[i].member_id : i \in Block(k)}
                   = Range(current_cycle_members)

\* a cycle of three members is complete and the next one has begun
C7_Witness ==
    /\ Len(current_cycle_members) = 3
    /\ Len(payout_history) = 4
    /\ last.op = "complete_payout"
    /\ last.ok

-----------------------------------------------------------------------------
(* Claims about concurrent redemption (SpecRace)                           *)

\* C3: of the concurrent verify_and_redeem_pin calls made for one pending
\* pin, at most one returns a success receipt (the pin is paid out once),
\* and when all calls have returned before the pin expires exactly one has
\* succeeded.
C3_PaidOutOnce ==
    /\ Cardinality({t \in Threads : result[t] = "success"}) <= 1
    /\ ((\A t \in Threads : pc[t] = "done") /\ now < pins[1].expires_at)
          => Cardinality({t \in Threads : result[t] = "success"}) = 1

-----------------------------------------------------------------------------
(* Claims about the lockout (SpecSec)                                      *)

TheAccount == account_security[SecUser]

IsFailure(e) == e.type = "failed_pin_attempt"

\* the count a failed attempt must report, given the PIN event before it:
\* one more than the failure before it, and 1 after a success, an unlock or
\* the failure that locked the account
CountAfter(prev) ==
    IF IsFailure(prev) /\ prev.attempts < MAX_FAILED_ATTEMPTS
    THEN prev.attempts + 1 ELSE 1

\* C8: the failed attempts that verify_pin_attempt evaluates are counted
\* from the last success or unlock: the first failure after a success counts
\* 1, each next one counts one more, the failure that counts 3 (and no
\* earlier one) locks the account for 30 minutes, and a success leaves the
\* counter at zero and the account unlocked.
C8_ThreeFailuresLock ==
    /\ [](/\ \A i \in DOMAIN pin_events :
                IsFailure(pin_events[i]) =>
                   /\ pin_events[i].attempts \in 1..MAX_FAILED_ATTEMPTS
                   /\ i > 1 => pin_events[i].attempts
                                  = CountAfter(pin_events[i - 1])
                   /\ (i = 1 /\ Len(pin_events) < MaxEvents)
                         => pin_events[i].attempts = 1
          /\ (pin_events # <<>> /\ ~IsFailure(pin_events[Len(pin_events)]))
                => /\ TheAccount.failed_pin_attempts = 0
                   /\ ~TheAccount.is_locked
          /\ TheAccount.is_locked =>
                /\ pin_events # <<>>
                /\ pin_events[Len(pin_events)]
                      = PinEvent("failed_pin_attempt", MAX_FAILED_ATTEMPTS))
    /\ [][(pin_events' # pin_events /\ IsFailure(pin_events'[Len(pin_events')]))
          => LET n == pin_events'[Len(pin_events')].attempts
                 acc == account_security'[SecUser]
             IN /\ acc.failed_pin_attempts = n
                /\ acc.is_locked <=> n = MAX_FAILED_ATTEMPTS
                /\ acc.is_locked =>
                      acc.locked_until = now + LOCKOUT_DURATION_MINUTES
                /\ last'.why = IF acc.is_locked THEN "locked_out"
                               ELSE "invalid"]_vars

\* three failures in a row have just locked the account, after earlier
\* attempts in the same hour that did not count towards the lock
C8_Witness ==
    /\ pin_events = <<PinEvent("failed_pin_attempt", 1),
                      PinEvent("failed_pin_attempt", 2),
                      PinEvent("failed_pin_attempt", 3)>>
    /\ TheAccount.is_locked
    /\ last.why = "locked_out"
    /\ Len(action_counts[<<"pin_verify", SecUser>>]) >= 5

Matches(a) == a[1] = ActualPin /\ a[2] = ActualPhone

PinVerifyRateLimited ==
    ~check_rate_limit(action_counts[<<"pin_verify", SecUser>>], now,
                      MAX_PIN_VERIFICATIONS, RATE_WINDOW_MINUTES)

\* what C9 says of an attempt made while the account is locked, before
\* locked_until: it is rejected as locked whatever was submitted, and
\* neither the account nor the rate window changes
RejectedWhileLocked ==
    /\ ~last'.ok
    /\ last'.why = "locked"
    /\ account_security'[SecUser] = TheAccount
    /\ action_counts' = action_counts

\* C9 as stated: a locked account rejects every attempt made before
\* locked_until, and at or after locked_until a matching attempt succeeds.
C9_AsStated ==
    [][\A a \in SecAttempts :
          (VerifyPinAttempt(a[1], a[2], ActualPin, ActualPhone, SecUser)
             /\ TheAccount.is_locked) =>
             IF now < TheAccount.locked_until THEN RejectedWhileLocked
             ELSE Matches(a) =>
                     /\ last'.ok
                     /\ account_security'[SecUser].failed_pin_attempts = 0
                     /\ ~account_security'[SecUser].is_locked]_vars

\* C9, amended: a locked account rejects every attempt made before
\* locked_until as locked, without changing the counter; the first attempt
\* at or after locked_until finds the account unlocked with counter 0 and is
\* never rejected as locked: a matching attempt succeeds unless 10 attempts
\* lie in the last 60 minutes, when it is rejected as rate-limited, and a
\* mismatching one that is evaluated counts as failure 1.
C9_LockedUntilExpiry ==
    [][\A a \in SecAttempts :
          (VerifyPinAttempt(a[1], a[2], ActualPin, ActualPhone, SecUser)
             /\ TheAccount.is_locked) =>
             IF now < TheAccount.locked_until THEN RejectedWhileLocked
             ELSE /\ last'.why # "locked"
                  /\ ~account_security'[SecUser].is_locked
                  /\ IF PinVerifyRateLimited
                     THEN /\ ~last'.ok
                          /\ last'.why = "rate_limited"
                          /\ account_security'[SecUser].failed_pin_attempts = 0
                     ELSE IF Matches(a)
                     THEN /\ last'.ok
                          /\ account_security'[SecUser].failed_pin_attempts = 0
                     ELSE /\ ~last'.ok
                          /\ account_security'[SecUser].failed_pin_attempts = 1]_vars

\* a matching attempt has just succeeded on an account that the previous
\* PIN event had locked: the lock expired and was cleared by this attempt
C9_Witness ==
    /\ last.op = "verify_pin_attempt"
    /\ last.ok
    /\ Len(pin_events) >= 2
    /\ pin_events[Len(pin_events) - 1]
          = PinEvent("failed_pin_attempt", MAX_FAILED_ATTEMPTS)
    /\ pin_events[Len(pin_events)] = PinEvent("pin_verification", 0)
    /\ ~TheAccount.is_locked

-----------------------------------------------------------------------------
(* Claims about the security gate (SpecGate)                               *)

\* the account of u is locked and the lock has not expired
IsLockedNow(u) ==
    /\ account_security[u].is_locked
    /\ now < account_security[u].locked_until

\* the rate limiter would refuse the next action of this kind by u
IsRateLimited(kind, u, max_attempts) ==
    ~check_rate_limit(action_counts[<<kind, u>>], now, max_attempts,
                      RATE_WINDOW_MINUTES)

\* the pins of u that have been redeemed
RedeemedPinsOf(ps, u) ==
    {i \in DOMAIN ps : ps[i].user_id = u /\ ps[i].status = "completed"}

\* C10: while a user's account is locked, or the user is rate-limited, no
\* step issues a withdrawal PIN to that user and no step redeems a PIN
\* that the user owns.
C10_SecurityGatesPayments ==
    [][\A u \in Users :
          /\ (IsLockedNow(u)
                 \/ IsRateLimited("withdrawal", u, MAX_WITHDRAWAL_REQUESTS))
               => {i \in DOMAIN pins' : pins'[i].user_id = u}
                     = {i \in DOMAIN pins : pins[i].user_id = u}
          /\ (IsLockedNow(u)
                 \/ IsRateLimited("pin_verify", u, MAX_PIN_VERIFICATIONS))
               => RedeemedPinsOf(pins', u) = RedeemedPinsOf(pins, u)]_vars

-----------------------------------------------------------------------------
(* Claims about voting (SpecBallot, SpecVote)                              *)

\* the proposal of vote v is in force
Applied(v, mgr, amt) ==
    IF v.vote_type = "manager_change" THEN mgr = v.proposal
    ELSE amt = v.proposal

\* C11: a cast_vote call that changes an active vote makes it pass exactly
\* when, with the new ballot recorded, its yes ballots number at least
\* floor(n/2)+1, n being the accepted-member count at the cast; when it
\* passes the proposal is applied, otherwise manager, amount, members and
\* payout schedule stay as they were.
C11_MajorityPasses ==
    [][\A i \in DOMAIN votes :
          (votes[i].is_active /\ votes'[i] # votes[i]) =>
             LET n == Cardinality(get_accepted_members)
                 v == votes'[i]
             IN /\ v.passed <=> (yes_votes(v) >= (n \div 2) + 1)
                /\ v.passed => /\ Applied(v, manager_id', monthly_amount')
                               /\ last'.why = "passed"
                /\ ~v.passed => /\ UNCHANGED <<members, manager_id,
                                               monthly_amount, payout_schedule>>
                                /\ last'.why = "not_passed"]_vars

\* a vote among five accepted members has just passed on its third yes
\* ballot, the two other members having voted no
C11_Witness ==
    /\ last.op = "cast_vote"
    /\ last.why = "passed"
    /\ Cardinality(get_accepted_members) = 5
    /\ yes_votes(votes[1]) = 3
    /\ Cardinality(DOMAIN votes[1].ballots) = 5
    /\ votes[1].passed
    /\ Applied(votes[1], manager_id, monthly_amount)

VoteTypes == {"manager_change", "monthly_amount_change"}

ActiveVotes(vs, vote_type) ==
    {i \in DOMAIN vs : vs[i].is_active /\ vs[i].vote_type = vote_type}

InitiateOp(vote_type) ==
    IF vote_type = "manager_change" THEN "initiate_manager_vote"
    ELSE "initiate_amount_change_vote"

\* C12: at most one vote of each type is active, and an initiation made
\* while a vote of its type is active fails and creates no vote.
C12_OneActiveVotePerType ==
    /\ [](\A ty \in VoteTypes : Cardinality(ActiveVotes(votes, ty)) <= 1)
    /\ [][\A ty \in VoteTypes :
            (ActiveVotes(votes, ty) # {} /\ last' # last
               /\ last'.op = InitiateOp(ty))
            => (~last'.ok /\ votes' = votes)]_vars

\* a manager vote was just refused because one is active, while an amount
\* vote is active as well
C12_Witness ==
    /\ last.op = "initiate_manager_vote"
    /\ ~last.ok
    /\ last.why = "active_vote"
    /\ Cardinality(ActiveVotes(votes, "manager_change")) = 1
    /\ Cardinality(ActiveVotes(votes, "monthly_amount_change")) = 1

\* C13: a vote that has passed or is no longer active never changes again,
\* every cast_vote on it fails, and no such call changes the manager, the
\* amount, the members or the payout schedule.
C13_TerminalVoteImmutable ==
    [][\A i \in DOMAIN votes :
          (votes[i].passed \/ ~votes[i].is_active) =>
             /\ votes'[i] = votes[i]
             /\ (last' # last /\ last'.op = "cast_vote" /\ last'.pin = i)
                   => /\ ~last'.ok
                      /\ UNCHANGED <<members, manager_id, monthly_amount,
                                     payout_schedule>>]_vars

\* a ballot was just refused on a vote that had passed, and another vote
\* has been marked expired without passing
C13_Witness ==
    /\ last.op = "cast_vote"
    /\ ~last.ok
    /\ last.why = "inactive"
    /\ votes[last.pin].passed
    /\ \E j \in DOMAIN votes : ~votes[j].is_active /\ ~votes[j].passed

-----------------------------------------------------------------------------
(* Claims about membership (SpecManager, SpecMembers)                      *)

\* C14: exactly one member has is_manager set, that member is accepted,
\* and manager_id names that member.
C14_OneAcceptedManager ==
    /\ Cardinality({u \in DOMAIN members : members[u].is_manager}) = 1
    /\ members[manager_id].is_manager
    /\ members[manager_id].status = "accepted"

\* the number of accepted members in the member table ms
AcceptedCount(ms) ==
    Cardinality({u \in DOMAIN ms : ms[u].status = "accepted"})

\* C15: the accepted-member count never exceeds MAX_MEMBERS, and no step
\* takes it from MIN_MEMBERS or more to less than MIN_MEMBERS.
C15_MemberCountInRange ==
    [][/\ AcceptedCount(members') <= MAX_MEMBERS
       /\ AcceptedCount(members) >= MIN_MEMBERS
             => AcceptedCount(members') >= MIN_MEMBERS]_vars

\* C16: a leave_stokvel call that raises leaves members, contributions,
\* manager and payout schedule exactly as they were.
C16_FailedLeaveChangesNothing ==
    [][(last' # last /\ last'.op = "leave_stokvel" /\ ~last'.ok)
          => UNCHANGED stokvelVars]_vars

\* C17: of the concurrent accept_invitation calls at most one gets past
\* the capacity test to accept its member, and the accepted-member count
\* never exceeds MAX_MEMBERS.
C17_NoAcceptancePastCapacity ==
    /\ AcceptedCount(members) <= MAX_MEMBERS
    /\ Cardinality({m \in DOMAIN accepting :
                       accepting[m] \in {"written", "returned"}}) <= 1

-----------------------------------------------------------------------------
(* Claims about the payout queue, the ledger and the pin codes             *)

\* C18: once the payout schedule of the PaymentsManager exists, its cycle
\* is made of exactly the currently accepted members and its queue holds
\* none but accepted members, each at most once.
C18_QueueFollowsMembership ==
    has_schedule =>
       /\ Range(current_cycle_members) = get_accepted_members
       /\ Range(upcoming_payouts) \subseteq get_accepted_members
       /\ Cardinality(Range(upcoming_payouts)) = Len(upcoming_payouts)

\* C19: get_stokvel_total() equals the sum of get_member_total(m) over the
\* accepted members m.
C19_TotalIsSumOfMemberTotals ==
    get_stokvel_total =
       SumOver([u \in DOMAIN members |-> get_member_total(u)],
               get_accepted_members)

\* C20: no two pins whose status is pending carry the same pin code.
C20_PendingCodesUnique ==
    \A i, j \in DOMAIN pins :
       (i # j /\ pins[i].status = "pending" /\ pins[j].status = "pending")
          => pins[i].pin_code # pins[j].pin_code

-----------------------------------------------------------------------------
(* Claims about withdrawals (SpecPin, SpecPool)                            *)

\* the pins that are pending, unexpired and carry this code and phone
RedeemablePins(ps, code, phone, t) ==
    {i \in DOMAIN ps : /\ ps[i].pin_code = code
                       /\ ps[i].phone_number = phone
                       /\ ps[i].status = "pending"
                       /\ t < ps[i].expires_at}

\* C21: verify_and_redeem_pin(code, phone) succeeds and redeems a pending,
\* unexpired pin of that code and phone whenever one exists, whatever
\* other pins carry the same code and phone, and fails only when none
\* exists.
C21_RedeemsThePendingPin ==
    [][(last' # last /\ last'.op = "verify_and_redeem_pin") =>
          LET valid == RedeemablePins(pins, last'.code, last'.phone, now)
          IN /\ valid # {} => /\ last'.ok
                              /\ last'.pin \in valid
                              /\ pins'[last'.pin].status = "completed"
             /\ valid = {} => ~last'.ok]_vars

-----------------------------------------------------------------------------
(* Claims about stokvel payouts against the pool (SpecPool)                *)

RequestStep == last' # last /\ last'.op = "request_stokvel_withdrawal"

\* the last pin, when the step has appended one
IssuedPin == pins'[Len(pins')]

\* C22: a successful request_stokvel_withdrawal advances the rotation (the
\* head is popped, or a new cycle of the same members starts when the head
\* was the last of the queue, and exactly one history record, of the
\* requester and the issued amount, is appended) if and only if the issued
\* amount is at least the group total; otherwise the history and an existing
\* queue are unchanged and the requester is still the head.
C22_AdvancesOnFullPayoutOnly ==
    [][(RequestStep /\ last'.ok) =>
          LET u == last'.user
              h == Len(payout_history)
          IN IF IssuedPin.amount >= get_stokvel_total
             THEN /\ Len(payout_history') = h + 1
                  /\ SubSeq(payout_history', 1, h) = payout_history
                  /\ payout_history'[h + 1].member_id = u
                  /\ payout_history'[h + 1].amount = IssuedPin.amount
                  /\ has_schedule =>
                        IF Len(upcoming_payouts) = 1
                        THEN IsPermutationOf(upcoming_payouts',
                                             current_cycle_members)
                        ELSE upcoming_payouts' = Tail(upcoming_payouts)
                  /\ ~has_schedule =>
                        /\ u \notin Range(upcoming_payouts')
                        /\ Len(upcoming_payouts') =
                              Len(current_cycle_members') - 1
             ELSE /\ payout_history' = payout_history
                  /\ has_schedule => upcoming_payouts' = upcoming_payouts
                  /\ upcoming_payouts'[1] = u]_vars

\* a member took a part of the pool and stayed the head, then took the
\* whole of what the pool held and the queue moved on to another member
C22_Witness ==
    /\ last.op = "request_stokvel_withdrawal"
    /\ last.ok
    /\ Len(pins) = 2
    /\ pins[1].user_id = last.user
    /\ pins[1].withdrawal_type = "stokvel_payout"
    /\ pins[2].amount >= get_stokvel_total
    /\ Len(payout_history) = 1
    /\ payout_history[1].member_id = last.user
    /\ upcoming_payouts[1] # last.user

\* C23: a head member who takes the pool in partial withdrawals stays next
\* only until the pool is exhausted: when a successful
\* request_stokvel_withdrawal brings the sum of the requester's pending and
\* completed stokvel pins up to the group total, the rotation advances (one
\* history record is appended for the requester, who is no longer the head).
C23_ExhaustedPoolAdvances ==
    [][(/\ RequestStep
        /\ last'.ok
        /\ withdrawn_amount(pins', last'.user) >= get_stokvel_total)
       => /\ Len(payout_history') = Len(payout_history) + 1
          /\ payout_history'[Len(payout_history')].member_id = last'.user
          /\ upcoming_payouts'[1] # last'.user]_vars

\* C24: every stokvel_payout pin is issued with an amount a such that
\* 10 <= a <= 5000 and a <= the group total at issuance; a request with the
\* amount omitted uses min(group total, 5000); when the group total is <= 0
\* or the amount used is below 10, above 5000 or above the group total, the
\* request fails, no pin is created, the pin counter keeps its value and the
\* rotation is not advanced (the history and an existing queue and cycle are
\* unchanged).
C24_StokvelPayoutBounds ==
    [][\A a \in PoolRequests :
          (RequestStep /\ last'.amount = a) =>
             LET total == get_stokvel_total
                 used == IF a = NoAmount THEN Min(total, MAX_AMOUNT * Rand)
                         ELSE a
             IN /\ last'.ok =>
                      /\ Len(pins') = Len(pins) + 1
                      /\ IssuedPin.withdrawal_type = "stokvel_payout"
                      /\ IssuedPin.amount = used
                      /\ MIN_STOKVEL_WITHDRAWAL * Rand <= IssuedPin.amount
                      /\ IssuedPin.amount <= MAX_AMOUNT * Rand
                      /\ IssuedPin.amount <= total
                /\ (\/ total <= 0
                    \/ used < MIN_STOKVEL_WITHDRAWAL * Rand
                    \/ used > MAX_AMOUNT * Rand
                    \/ used > total)
                   => /\ ~last'.ok
                      /\ Len(pins') = Len(pins)
                      /\ pin_counter' = pin_counter
                      /\ payout_history' = payout_history
                      /\ has_schedule =>
                            /\ upcoming_payouts' = upcoming_payouts
                            /\ current_cycle_members' = current_cycle_members]_vars

\* a request with the amount omitted has just been issued a pin of 5000
\* against a pool of more than 5000
C24_Witness ==
    /\ last.op = "request_stokvel_withdrawal"
    /\ last.ok
    /\ last.amount = NoAmount
    /\ get_stokvel_total > MAX_AMOUNT * Rand
    /\ pins[Len(pins)].amount = MAX_AMOUNT * Rand
    /\ pins[Len(pins)].withdrawal_type = "stokvel_payout"

-----------------------------------------------------------------------------
(* Claims about individual withdrawals and cancellation (SpecPin)          *)

\* C25: request_individual_withdrawal issues a pin only when the user has a
\* savings account, 0 < amount <= 5000 and amount <= the total the user has
\* saved, and then issues exactly one individual_savings pin of that amount;
\* otherwise (R600 asked with R500 saved) it fails, no pin is created and
\* the pin counter keeps its value.
C25_IndividualWithdrawalBounds ==
    [][(last' # last /\ last'.op = "request_individual_withdrawal") =>
          LET u == last'.user
              a == last'.amount
              funded == /\ 0 < a
                        /\ a <= MAX_AMOUNT * Rand
                        /\ individual_savings[u].exists
                        /\ a <= get_total_savings(u)
          IN /\ last'.ok <=> funded
             /\ funded =>
                   /\ Len(pins') = Len(pins) + 1
                   /\ pin_counter' = pin_counter + 1
                   /\ IssuedPin.user_id = u
                   /\ IssuedPin.amount = a
                   /\ IssuedPin.withdrawal_type = "individual_savings"
                   /\ IssuedPin.status = "pending"
             /\ ~funded =>
                   /\ Len(pins') = Len(pins)
                   /\ pin_counter' = pin_counter]_vars

\* R600 has just been refused to the user who has saved R500 and already
\* holds a pin of R300
C25_Witness ==
    /\ last.op = "request_individual_withdrawal"
    /\ ~last.ok
    /\ last.why = "insufficient"
    /\ last.amount = 600 * Rand
    /\ get_total_savings(last.user) = 500 * Rand
    /\ Len(pins) = 1
    /\ pin_counter = 1

-----------------------------------------------------------------------------
(* Claims about the remaining payout (SpecPool)                            *)

RemainingStep == last' # last /\ last'.op = "get_remaining_payout_amount"

\* what is left of the pool for u: the group total minus u's pending and
\* completed stokvel pins, floored at 0
PoolLeftFor(u) == Max(0, get_stokvel_total - withdrawn_amount(pins, u))

\* C26 as stated: get_remaining_payout_amount(user, stokvel) equals
\* max(0, group total - sum of the user's pending and completed
\* stokvel_payout pins against the stokvel), for every user.
C26_RemainingIsPoolLeft ==
    [][RemainingStep => last'.amount = PoolLeftFor(last'.user)]_vars

\* C26: get_remaining_payout_amount(user, stokvel) is 0 for a user who is
\* not the next recipient and, for the next recipient, max(0, group total -
\* sum of the user's pending and completed stokvel_payout pins against the
\* stokvel) rounded to the cent; it is never negative, whatever
\* contributions and departures have done to the pool since the pins were
\* issued.
C26_RemainingForNextRecipient ==
    [][RemainingStep =>
          /\ last'.amount >= 0
          /\ last'.amount =
                IF is_member_next(upcoming_payouts', last'.user)
                THEN round2(PoolLeftFor(last'.user))
                ELSE 0]_vars

\* the head, whose pins exceed what a departure has left in the pool, has
\* just been told that nothing remains
C26_Witness ==
    /\ last.op = "get_remaining_payout_amount"
    /\ is_member_next(upcoming_payouts, last.user)
    /\ withdrawn_amount(pins, last.user) > get_stokvel_total
    /\ get_stokvel_total > 0
    /\ last.amount = 0

\* C27: cancel_withdrawal(pin id, requester) succeeds, and moves the pin to
\* cancelled leaving every other pin as it is, exactly when the pin exists,
\* the requester is the user the pin was issued to and the pin is pending;
\* otherwise it fails and no pin changes.
C27_CancelByOwnerOfPendingPin ==
    [][(last' # last /\ last'.op = "cancel_withdrawal") =>
          LET i == last'.pin
              cancellable == /\ i \in DOMAIN pins
                             /\ pins[i].user_id = last'.user
                             /\ pins[i].status = "pending"
          IN /\ last'.ok <=> cancellable
             /\ cancellable =>
                   /\ pins'[i] = [pins[i] EXCEPT !.status = "cancelled"]
                   /\ \A j \in DOMAIN pins : j # i => pins'[j] = pins[j]
                   /\ DOMAIN pins' = DOMAIN pins
             /\ ~cancellable => pins' = pins]_vars

\* a user who does not own it has just been refused the cancellation of a
\* pending pin, after the owner has cancelled an earlier pin
C27_Witness ==
    /\ last.op = "cancel_withdrawal"
    /\ ~last.ok
    /\ last.why = "not_owner"
    /\ last.pin \in DOMAIN pins
    /\ pins[last.pin].status = "pending"
    /\ pins[last.pin].user_id # last.user
    /\ \E j \in DOMAIN pins : pins[j].status = "cancelled"

-----------------------------------------------------------------------------
(* Claims about the rate limit (SpecRate)                                  *)

WithdrawalKey(u) == <<"withdrawal", u>>

\* how many of the recorded times lie in the window of 60 minutes ending at t
RecordedInWindow(times, t) ==
    Cardinality({i \in DOMAIN times :
                    t - RATE_WINDOW_MINUTES < times[i] /\ times[i] <= t})

\* C28: verify_withdrawal_request allows at most 5 requests of one user in
\* any rolling window of 60 minutes: every request it allows is recorded
\* with its time, after the removal of nothing but the records that are 60
\* minutes old or older, it is allowed only when fewer than 5 records are
\* younger than that, and no window of 60 minutes ever holds more than 5
\* records of one user.
C28_FivePerRollingHour ==
    /\ [](\A u \in RateUsers, t \in 0..now :
             RecordedInWindow(action_counts[WithdrawalKey(u)], t)
                <= MAX_WITHDRAWAL_REQUESTS)
    /\ [][(last' # last /\ last'.op = "verify_withdrawal_request") =>
             LET times == action_counts[WithdrawalKey(last'.user)]
                 recent == SelectSeq(times,
                              LAMBDA ts : ts > now - RATE_WINDOW_MINUTES)
             IN /\ last'.ok =>
                      /\ Len(recent) < MAX_WITHDRAWAL_REQUESTS
                      /\ action_counts'[WithdrawalKey(last'.user)] =
                            Append(recent, now)
                /\ Len(recent) >= MAX_WITHDRAWAL_REQUESTS => ~last'.ok]_vars

\* a sixth request has just been refused in a window that has rolled: an
\* earlier request has left it and a later one has taken its place
C28_Witness ==
    /\ last.op = "verify_withdrawal_request"
    /\ ~last.ok
    /\ last.why = "rate_limited"
    /\ now >= RATE_WINDOW_MINUTES
    /\ LET times == action_counts[WithdrawalKey(last.user)]
       IN /\ Len(times) = MAX_WITHDRAWAL_REQUESTS
          /\ times[1] > 0
          /\ times[Len(times)] = now

-----------------------------------------------------------------------------
(* Claims about concurrent PIN attempts (SpecAttempts)                     *)

\* C29: when calls of verify_pin_attempt with a wrong code run concurrently
\* for one user, the lockout check and the update of the counter are atomic:
\* the failed-attempt counter never exceeds 3, so that at most 3 wrong
\* attempts are evaluated between two unlocks.
C29_CounterNeverExceedsThree ==
    account_security[AttemptUser].failed_pin_attempts <= MAX_FAILED_ATTEMPTS

-----------------------------------------------------------------------------
(* Claims about the contribution ledger (SpecContrib)                      *)

\* C30: every entry of a contribution ledger has an amount in (0, 5000] and
\* was added to the ledger of a member who was accepted at that moment (so
\* that a ledger with entries belongs to a member who is accepted or has
\* left since); add_contribution succeeds, appending the amount to the
\* ledger of the member and to no other, exactly when the member is
\* accepted and the amount is in (0, 5000], and for a non-member, a
\* pending, rejected or departed member or another amount it fails and
\* leaves every ledger unchanged.
C30_LedgerEntriesValid ==
    /\ [](\A u \in DOMAIN contributions :
             /\ \A i \in DOMAIN contributions[u] :
                   /\ 0 < contributions[u][i]
                   /\ contributions[u][i] <= MAX_AMOUNT * Rand
             /\ contributions[u] # <<>> =>
                   members[u].status \in {"accepted", "left"})
    /\ [][(last' # last /\ last'.op = "add_contribution") =>
             LET u == last'.user
                 a == last'.amount
                 valid == /\ members[u].status = "accepted"
                          /\ 0 < a
                          /\ a <= MAX_AMOUNT * Rand
             IN /\ last'.ok <=> valid
                /\ valid => contributions' =
                      [contributions EXCEPT ![u] = Append(@, a)]
                /\ ~valid => contributions' = contributions]_vars

\* a member who has left, and whose ledger holds what was contributed
\* before, has just been refused a contribution of R5000
C30_Witness ==
    /\ last.op = "add_contribution"
    /\ ~last.ok
    /\ last.amount = MAX_AMOUNT * Rand
    /\ members[last.user].status = "left"
    /\ contributions[last.user] = <<MAX_AMOUNT * Rand>>
    /\ \E v \in DOMAIN members : members[v].status \in {"pending", "rejected"}

-----------------------------------------------------------------------------
(* Claims about the account invariant (SpecAccount)                        *)

\* C31: in every state of an account driven through verify_pin_attempt,
\* verify_withdrawal_request and unlock_user_account, a true lockout flag
\* comes with a locked_until that is set and a failed-attempt counter equal
\* to 3, and a false flag with a counter in 0..2.
C31_LockFlagAndCounter ==
    \A u \in DOMAIN account_security :
       LET acc == account_security[u]
       IN /\ acc.is_locked =>
                /\ acc.locked_until # NONE
                /\ acc.failed_pin_attempts = MAX_FAILED_ATTEMPTS
          /\ ~acc.is_locked =>
                /\ acc.failed_pin_attempts >= 0
                /\ acc.failed_pin_attempts < MAX_FAILED_ATTEMPTS

\* an account whose first lockout has run out is locked again, and a
\* withdrawal request has just been refused for it
C31_Witness ==
    /\ last.op = "verify_withdrawal_request"
    /\ last.why = "locked"
    /\ account_security[SecUser].is_locked
    /\ account_security[SecUser].failed_pin_attempts = MAX_FAILED_ATTEMPTS
    /\ account_security[SecUser].locked_until > LOCKOUT_DURATION_MINUTES

-----------------------------------------------------------------------------
(* Claims about expiry (SpecPin)                                           *)

PurgingOperations ==
    {"request_individual_withdrawal", "request_stokvel_withdrawal",
     "verify_and_redeem_pin", "get_user_pins"}

\* C32: expiry is materialised exactly at the 24-hour boundary.  mark_expired
\* changes a pin, to expired, if and only if the pin is pending and
\* now >= expires_at; at every instant a pending pin is either redeemable
\* (is_valid) or expirable (mark_expired would change it), never both and
\* never neither; and after any operation of the manager that begins with
\* the expiry purge no pin with now >= expires_at is still pending.
C32_ExpiryAtTheBoundary ==
    /\ [](\A i \in DOMAIN pins :
             pins[i].status = "pending" =>
                (is_valid(pins[i], now) <=>
                    ~(mark_expired(pins[i], now) # pins[i])))
    /\ [][/\ (last' # last /\ last'.op = "mark_expired") =>
                LET i == last'.pin
                    due == /\ pins[i].status = "pending"
                           /\ now >= pins[i].created_at + PIN_EXPIRY_MINUTES
                IN /\ last'.ok <=> due
                   /\ due => pins' = [pins EXCEPT ![i].status = "expired"]
                   /\ ~due => pins' = pins
          /\ (last' # last /\ last'.op \in PurgingOperations) =>
                \A i \in DOMAIN pins' :
                   ~(/\ pins'[i].status = "pending"
                     /\ now' >= pins'[i].created_at + PIN_EXPIRY_MINUTES)]_vars

\* the purge of get_user_pins has just expired a pin at the very minute its
\* 24 hours were over
C32_Witness ==
    /\ last.op = "get_user_pins"
    /\ \E i \in DOMAIN pins :
          /\ pins[i].status = "expired"
          /\ now = pins[i].created_at + PIN_EXPIRY_MINUTES

-----------------------------------------------------------------------------
(* Claims about denied requests (SpecDenial)                               *)

GatewayOperations == {"verify_withdrawal_request", "verify_pin_attempt"}

RateKeyOf(op, u) ==
    IF op = "verify_withdrawal_request" THEN <<"withdrawal", u>>
    ELSE <<"pin_verify", u>>

RateMaxOf(op) ==
    IF op = "verify_withdrawal_request" THEN MAX_WITHDRAWAL_REQUESTS
    ELSE MAX_PIN_VERIFICATIONS

\* whether every time of the sequence `a` is a time of the sequence `b`
TimesAmong(a, b) == \A i \in DOMAIN a : \E j \in DOMAIN b : a[i] = b[j]

\* C33: a request that verify_withdrawal_request or verify_pin_attempt
\* rejects as locked or rate-limited adds no timestamp to the rate window
\* (the window only loses timestamps), so that denials do not extend the
\* block: a request made when the account is not locked and the oldest
\* counted attempt is at least 60 minutes old passes the rate limit.
C33_DenialsAreNotCounted ==
    [][(last' # last /\ last'.op \in GatewayOperations) =>
          LET u == last'.user
              key == RateKeyOf(last'.op, u)
              times == action_counts[key]
              locked == /\ account_security[u].is_locked
                        /\ now < account_security[u].locked_until
          IN /\ last'.why \in {"locked", "rate_limited"} =>
                   /\ ~last'.ok
                   /\ Len(action_counts'[key]) <= Len(times)
                   /\ TimesAmong(action_counts'[key], times)
             /\ (/\ ~locked
                 /\ times # <<>>
                 /\ Len(times) <= RateMaxOf(last'.op)
                 /\ times[1] <= now - RATE_WINDOW_MINUTES)
                => /\ last'.why \notin {"locked", "rate_limited"}
                   /\ action_counts'[key][Len(action_counts'[key])] = now]_vars

\* a withdrawal request has just been allowed an hour after the first of
\* five requests, the four others being still counted, for an account that
\* has been locked
C33_Witness ==
    /\ last.op = "verify_withdrawal_request"
    /\ last.ok
    /\ now >= RATE_WINDOW_MINUTES
    /\ LET times == action_counts[<<"withdrawal", SecUser>>]
       IN /\ Len(times) = MAX_WITHDRAWAL_REQUESTS
          /\ times[1] > 0
          /\ times[Len(times)] = now
    /\ Len(action_counts[<<"pin_verify", SecUser>>]) >= MAX_FAILED_ATTEMPTS

-----------------------------------------------------------------------------
(* Claims about over-disbursement (SpecPool, SpecPin)                      *)

\* the pins of the given type against the given source that are pending or
\* completed, and the sum of their amounts
LivePins(type, source) ==
    {i \in DOMAIN pins : /\ pins[i].withdrawal_type = type
                         /\ pins[i].source_id = source
                         /\ pins[i].status \in {"pending", "completed"}}

Disbursed(type, source) ==
    SumOver([i \in DOMAIN pins |-> pins[i].amount], LivePins(type, source))

\* C34: no over-disbursement from a stokvel: in every state the amounts of
\* the pending and completed stokvel_payout pins issued against the stokvel,
\* over all members and all turns, sum to at most the group total.
C34_StokvelNotOverdrawn ==
    Disbursed("stokvel_payout", StokvelId) <= get_stokvel_total

\* C35: no over-disbursement from individual savings: in every state the
\* amounts of a user's pending and completed individual_savings pins sum to
\* at most the total the user has saved.
C35_SavingsNotOverdrawn ==
    \A u \in PinUsers :
       Disbursed("individual_savings", u) <= get_total_savings(u)

-----------------------------------------------------------------------------
(* Claims about the payout history (SpecRecord)                            *)

\* C36: every record of the payout history corresponds to a stokvel_payout
\* pin of the same member and amount that is pending or completed: no turn
\* stands recorded as completed for a pin that has been cancelled or has
\* expired unredeemed.
C36_HistoryBackedByLivePin ==
    \A k \in DOMAIN payout_history :
       \E i \in LivePins("stokvel_payout", StokvelId) :
          /\ pins[i].user_id = payout_history[k].member_id
          /\ pins[i].amount = payout_history[k].amount

-----------------------------------------------------------------------------
(* Claims about who carries a vote (SpecManager)                           *)

\* the accepted members whose recorded ballot on v is yes
CurrentYesVoters(v, ms) ==
    {u \in DOMAIN v.ballots :
        /\ v.ballots[u]
        /\ u \in DOMAIN ms
        /\ ms[u].status = "accepted"}

\* C37: a vote passes only on the strength of current members: whenever a
\* ballot makes a vote passed, the currently accepted members whose recorded
\* ballot is yes number at least floor(n/2)+1, n being the current number
\* of accepted members; the ballots of members who have left do not count.
C37_PassedByCurrentMembers ==
    [][(last' # last /\ last'.op = "cast_vote" /\ last'.why = "passed") =>
          Cardinality(CurrentYesVoters(votes'[last'.pin], members))
             >= (Cardinality(get_accepted_members) \div 2) + 1]_vars

-----------------------------------------------------------------------------
(* Claims about votes past their expiry time (SpecBallot, SpecVote)        *)

\* C38: a vote never passes, and its proposal is never applied, as the
\* result of a ballot cast at or after the expiry time of the vote, even
\* when the expiry has not been materialised in the status of the vote.
C38_NoPassingAfterExpiry ==
    [][(/\ last' # last
        /\ last'.op = "cast_vote"
        /\ last'.pin \in DOMAIN votes
        /\ now >= votes[last'.pin].expires_at)
       => /\ ~votes'[last'.pin].passed
          /\ last'.why # "passed"
          /\ manager_id' = manager_id
          /\ monthly_amount' = monthly_amount]_vars

VoteTypeOf(op) ==
    IF op = "initiate_manager_vote" THEN "manager_change"
    ELSE "monthly_amount_change"

\* C39: a vote whose expiry time has passed no longer blocks governance: when
\* every active vote of a type has now >= expires_at, an accepted member who
\* initiates a vote of that type is not refused for an active vote, no
\* ballot on the old vote being needed first.
C39_ExpiredVoteDoesNotBlock ==
    [][(/\ last' # last
        /\ last'.op \in {"initiate_manager_vote", "initiate_amount_change_vote"}
        /\ last'.user \in get_accepted_members
        /\ \A i \in DOMAIN votes :
              (votes[i].is_active /\ votes[i].vote_type = VoteTypeOf(last'.op))
                 => now >= votes[i].expires_at)
       => last'.why # "active_vote"]_vars

-----------------------------------------------------------------------------
(* Claims about the membership lifecycle (SpecMembers)                     *)

\* the status changes of a member entry; "none" is the absence of an entry
StatusTransitions ==
    {<<"none", "pending">>, <<"pending", "accepted">>,
     <<"pending", "rejected">>, <<"accepted", "left">>}

\* C40: membership status is a one-way lifecycle: an entry is created as
\* pending by invite_member, moves from pending to accepted or to rejected
\* and from accepted to left, and no other change of status ever occurs;
\* invite_member for a user whose entry exists, in any status, fails and
\* changes no entry; accept_invitation and reject_invitation on an entry
\* that is not pending fail and change no entry.
C40_OneWayLifecycle ==
    [][/\ \A u \in DOMAIN members :
             \/ members'[u].status = members[u].status
             \/ <<members[u].status, members'[u].status>> \in StatusTransitions
       /\ \A u \in DOMAIN members :
             (members[u].status = "none" /\ members'[u].status = "pending")
                => (last'.op = "invite_member" /\ last'.user = u)
       /\ (/\ last' # last
           /\ last'.op = "invite_member"
           /\ members[last'.user].status # "none")
          => (~last'.ok /\ members' = members)
       /\ (/\ last' # last
           /\ last'.op \in {"accept_invitation", "reject_invitation"}
           /\ members[last'.user].status # "pending")
          => (~last'.ok /\ members' = members)]_vars

\* a user who has left has just been refused a new invitation, while
\* another user has rejected theirs
C40_Witness ==
    /\ last.op = "invite_member"
    /\ ~last.ok
    /\ last.why = "duplicate"
    /\ members[last.user].status = "left"
    /\ \E v \in DOMAIN members : members[v].status = "rejected"

=============================================================================
